---------------------------- MODULE Spec2Model ----------------------------
(***************************************************************************)
(* Reactor simulation core of rev_reactor_incremental: Grid, UpgradeManager,*)
(* ResourceStore and Simulation (tick pipeline, prestige, reset).           *)
(*                                                                          *)
(* Number representation.  The program computes with Python floats.  Here   *)
(* every real-valued quantity (money, exotic particles, power, heat, rates, *)
(* capacities, costs, global multipliers) is a fixed-point integer counting *)
(* hundredths: the model value v stands for v / FP.  Durabilities, pulse    *)
(* counts, upgrade levels and upgrade bonus values are plain integers (the  *)
(* catalogs below only carry integer-valued ones, which floats represent    *)
(* exactly).  A product or quotient that is not a whole number of           *)
(* hundredths is rounded toward minus infinity.  The two lifetime totals    *)
(* that the prestige formula reads can exceed 32 bits and are kept as       *)
(* two-limb numbers [hi, lo] with value hi * BigBase + lo.                   *)
(***************************************************************************)
EXTENDS Integers, Sequences, FiniteSets, TLC

(***************************************************************************)
(* Bounds of the model                                                      *)
(***************************************************************************)
MaxComponents == 2
MaxTicks == 3
MaxLevel == 2
MaxMoney == 3

(***************************************************************************)
(* Program constants                                                        *)
(***************************************************************************)
FP == 100
BigBase == 1000000000

BaseWidth == 19
BaseHeight == 16
Layers == 1
SubspaceIndex == 50

MAX_DURABILITY == 1
HEAT_CAPACITY == 2
ENERGY_PER_PULSE == 3
HEAT_PER_PULSE == 4
SELF_VENT_RATE == 6
ADJACENT_TRANSFER_RATE == 9
REACTOR_TRANSFER_RATE == 10
REACTOR_HEAT_CAP_INCREASE == 11
REACTOR_POWER_CAP_INCREASE == 12
MANUAL_SELL == 13
MANUAL_VENT == 14
AUTO_SELL_RATE == 15
AUTO_VENT_RATE == 16
VENT_EFFECTIVENESS == 17
REPLACES_SELF == 18
TICKS_PER_SECOND == 19
CELL_EFFECTIVENESS == 20
VENT_CAPACITY == 21
EXCHANGER_EFFECTIVENESS == 22
EXCHANGER_CAPACITY == 23
REFLECTOR_EFFECTIVENESS == 24
COMPONENT_DISCOUNT == 25
UPGRADE_DISCOUNT == 26

(***************************************************************************)
(* Arithmetic helpers                                                       *)
(***************************************************************************)
Min(a, b) == IF a <= b THEN a ELSE b
Max(a, b) == IF a >= b THEN a ELSE b
Abs(a) == IF a < 0 THEN 0 - a ELSE a

RECURSIVE Pow(_, _)
Pow(b, n) == IF n <= 0 THEN 1 ELSE b * Pow(b, n - 1)

\* floor(a / b) for b > 0 and any sign of a
FloorDiv(a, b) == a \div b

(***************************************************************************)
(* Upgrade catalog (the upgrade loader's input).  Indices follow the       *)
(* program: 0-based, upgrade 50 is Subspace Expansion.                      *)
(***************************************************************************)
Bonus(ct, sc, add, mul) ==
    [component_type |-> ct, stat_category |-> sc, additive |-> add, multiplicative |-> mul]

UpgradeType(cost, mult, prestige, prereq, bonuses) ==
    [base_cost |-> cost, cost_multiplier |-> mult, is_prestige |-> prestige,
     prerequisite |-> prereq, bonuses |-> bonuses, level |-> 0]

UpgradeCatalog ==
    [i \in 0..SubspaceIndex |->
        CASE i = 0 -> UpgradeType(1 * FP, 2, FALSE, -1, <<Bonus(1, REACTOR_HEAT_CAP_INCREASE, 1, 1)>>)
          [] i = 1 -> UpgradeType(2 * FP, 0, FALSE, 0, <<Bonus(2, REPLACES_SELF, 1, 1)>>)
          [] i = 2 -> UpgradeType(1 * FP, 2, FALSE, -1, <<Bonus(1, AUTO_SELL_RATE, 1, 1)>>)
          [] i = 3 -> UpgradeType(1 * FP, 0, TRUE, SubspaceIndex, <<Bonus(2, MAX_DURABILITY, 0, 2)>>)
          [] i = 4 -> UpgradeType(1 * FP, 0, FALSE, -1, <<Bonus(1, UPGRADE_DISCOUNT, 1, 1)>>)
          [] i = 5 -> UpgradeType(1 * FP, 2, FALSE, -1, <<Bonus(1, TICKS_PER_SECOND, 1, 1)>>)
          [] i = 6 -> UpgradeType(1 * FP, 2, TRUE, -1,
                                  <<Bonus(1, REACTOR_HEAT_CAP_INCREASE, 0, 4),
                                    Bonus(1, REACTOR_POWER_CAP_INCREASE, 0, 4)>>)
          [] i = 7 -> UpgradeType(1 * FP, 2, FALSE, -1, <<Bonus(11, MAX_DURABILITY, 1, 1)>>)
          [] i = 8 -> UpgradeType(1 * FP, 2, FALSE, -1, <<Bonus(12, EXCHANGER_CAPACITY, 1, 1)>>)
          [] i = SubspaceIndex -> UpgradeType(1 * FP, 2, TRUE, -1, <<>>)
          [] OTHER -> UpgradeType(1 * FP, 0, FALSE, -1, <<>>)]

\* a second upgrade_data.json: three upgrades whose bonuses share targets, subtract,
\* and multiply by zero
OddCatalog ==
    [i \in 0..2 |->
        CASE i = 0 -> UpgradeType(1 * FP, 2, FALSE, -1,
                                  <<Bonus(1, MANUAL_VENT, -1, 0), Bonus(1, MANUAL_VENT, 2, 3)>>)
          [] i = 1 -> UpgradeType(1 * FP, 0, FALSE, -1, <<Bonus(1, MANUAL_VENT, 0, 0)>>)
          [] OTHER -> UpgradeType(1 * FP, 2, TRUE, -1, <<Bonus(2, MANUAL_SELL, -2, 1)>>)]

\* the files UpgradeManager.load can read
Catalogs == <<UpgradeCatalog, OddCatalog>>

NumUpgrades(ups) == Cardinality(DOMAIN ups)

(***************************************************************************)
(* UpgradeManager                                                           *)
(***************************************************************************)
\* Sum and product contributed by one upgrade's bonus list, from bonus k on.
RECURSIVE BonusAdd(_, _, _, _)
BonusAdd(u, ct, sc, k) ==
    IF k > Len(u.bonuses) THEN 0
    ELSE LET b == u.bonuses[k] IN
         (IF b.component_type = ct /\ b.stat_category = sc THEN b.additive * u.level ELSE 0)
         + BonusAdd(u, ct, sc, k + 1)

RECURSIVE BonusMul(_, _, _, _)
BonusMul(u, ct, sc, k) ==
    IF k > Len(u.bonuses) THEN 1
    ELSE LET b == u.bonuses[k] IN
         (IF b.component_type = ct /\ b.stat_category = sc THEN Pow(b.multiplicative, u.level) ELSE 1)
         * BonusMul(u, ct, sc, k + 1)

RECURSIVE AdditiveSum(_, _, _, _)
AdditiveSum(ups, ct, sc, i) ==
    IF i >= NumUpgrades(ups) THEN 0
    ELSE (IF ups[i].level = 0 THEN 0 ELSE BonusAdd(ups[i], ct, sc, 1))
         + AdditiveSum(ups, ct, sc, i + 1)

RECURSIVE MultiplicativeProduct(_, _, _, _)
MultiplicativeProduct(ups, ct, sc, i) ==
    IF i >= NumUpgrades(ups) THEN 1
    ELSE (IF ups[i].level = 0 THEN 1 ELSE BonusMul(ups[i], ct, sc, 1))
         * MultiplicativeProduct(ups, ct, sc, i + 1)

\* get_upgrade_stat_bonus without the 1.0 the additive sum starts from
get_upgrade_stat_bonus_no_base(ups, ct, sc) ==
    MultiplicativeProduct(ups, ct, sc, 0) * AdditiveSum(ups, ct, sc, 0)

\* An integer: the bonus factor itself, not hundredths.
get_upgrade_stat_bonus(ups, ct, sc) ==
    MultiplicativeProduct(ups, ct, sc, 0) * (AdditiveSum(ups, ct, sc, 0) + 1)

\* 0.99 ^ (bonus - 1) as the fraction <<numerator, denominator>>
get_upgrade_discount(ups) ==
    LET bonus == get_upgrade_stat_bonus(ups, 1, UPGRADE_DISCOUNT) IN
    IF bonus <= 1 THEN <<1, 1>> ELSE <<Pow(99, bonus - 1), Pow(100, bonus - 1)>>

get_component_discount(ups) ==
    LET bonus == get_upgrade_stat_bonus(ups, 1, COMPONENT_DISCOUNT) IN
    IF bonus <= 1 THEN <<1, 1>> ELSE <<Pow(99, bonus - 1), Pow(100, bonus - 1)>>

get_cost(ups, idx) ==
    IF idx < 0 \/ idx >= NumUpgrades(ups) THEN 0
    ELSE LET u == ups[idx]
             d == get_upgrade_discount(ups)
         IN IF u.cost_multiplier = 0 THEN u.base_cost
            ELSE FloorDiv(u.base_cost * Pow(u.cost_multiplier, u.level) * d[1], d[2])

\* can_purchase without its prerequisite check
can_purchase_no_prerequisite(ups, idx, money, ep) ==
    IF idx < 0 \/ idx >= NumUpgrades(ups) THEN FALSE
    ELSE LET u == ups[idx] IN
         IF u.cost_multiplier = 0 /\ u.level > 0 THEN FALSE
         ELSE IF u.is_prestige THEN ep >= get_cost(ups, idx)
         ELSE money >= get_cost(ups, idx)

can_purchase(ups, idx, money, ep) ==
    IF idx < 0 \/ idx >= NumUpgrades(ups) THEN FALSE
    ELSE LET u == ups[idx] IN
         IF u.cost_multiplier = 0 /\ u.level > 0 THEN FALSE
         ELSE IF u.prerequisite >= 0 /\ ups[u.prerequisite].level = 0 THEN FALSE
         ELSE IF u.is_prestige THEN ep >= get_cost(ups, idx)
         ELSE money >= get_cost(ups, idx)

\* purchase charging money whatever the upgrade's currency
purchase_in_money(ups, idx, money, ep) ==
    IF ~can_purchase(ups, idx, money, ep)
    THEN [upgrades |-> ups, money |-> money, ep |-> ep]
    ELSE [upgrades |-> [ups EXCEPT ![idx].level = @ + 1],
          money |-> money - get_cost(ups, idx), ep |-> ep]

\* purchase without the re-validation of the click
purchase_unvalidated(ups, idx, money, ep) ==
    IF idx < 0 \/ idx >= NumUpgrades(ups)
    THEN [upgrades |-> ups, money |-> money, ep |-> ep]
    ELSE [upgrades |-> [ups EXCEPT ![idx].level = @ + 1],
          money |-> IF ups[idx].is_prestige THEN money ELSE money - get_cost(ups, idx),
          ep |-> IF ups[idx].is_prestige THEN ep - get_cost(ups, idx) ELSE ep]

\* Returns the new upgrade list and the (money, ep) pair the method returns.
purchase(ups, idx, money, ep) ==
    IF ~can_purchase(ups, idx, money, ep)
    THEN [upgrades |-> ups, money |-> money, ep |-> ep]
    ELSE LET u == ups[idx]
             cost == get_cost(ups, idx)
         IN [upgrades |-> [ups EXCEPT ![idx].level = @ + 1],
             money |-> IF u.is_prestige THEN money ELSE money - cost,
             ep |-> IF u.is_prestige THEN ep - cost ELSE ep]

has_replaces_self(ups, ct) == get_upgrade_stat_bonus(ups, ct, REPLACES_SELF) > 1

(***************************************************************************)
(* Two-limb numbers for total_power_produced and total_heat_dissipated      *)
(***************************************************************************)
Big(hi, lo) == [hi |-> hi, lo |-> lo]
BigZero == Big(0, 0)
\* b + n for 0 <= n < BigBase
BigAdd(b, n) == Big(b.hi + ((b.lo + n) \div BigBase), (b.lo + n) % BigBase)
BigLess(a, b) == a.hi < b.hi \/ (a.hi = b.hi /\ a.lo < b.lo)
BigLeq(a, b) == ~BigLess(b, a)
BigMin(a, b) == IF BigLeq(a, b) THEN a ELSE b

(***************************************************************************)
(* Component catalog (the catalog loader's input): ComponentTypeStats       *)
(***************************************************************************)
NoStats ==
    [energy_per_pulse |-> 0, heat_per_pulse |-> 0, pulses_produced |-> 0,
     max_durability |-> 0, heat_capacity |-> 0, cost |-> 0,
     self_vent_rate |-> 0, reactor_vent_rate |-> 0,
     reactor_heat_capacity_increase |-> 0, reactor_power_capacity_increase |-> 0,
     reflects_pulses |-> 0, type_of_component |-> "", number_of_cores |-> 1,
     cell_width |-> 1, cell_height |-> 1, cant_lose_heat |-> FALSE,
     component_type_id |-> 0, tier |-> 1]

FuelStats(id, epp, hpp, pulses, dur, cores) ==
    [NoStats EXCEPT !.energy_per_pulse = epp, !.heat_per_pulse = hpp,
                    !.pulses_produced = pulses, !.max_durability = dur,
                    !.type_of_component = "Fuel", !.number_of_cores = cores,
                    !.cell_width = IF cores <= 1 THEN 1 ELSE 2,
                    !.cell_height = IF cores <= 2 THEN 1 ELSE 2,
                    !.component_type_id = id, !.cost = 1 * FP]

\* The entry load_component_catalog builds for Fuel1-1 when component_types.json is
\* missing: every entry of that catalog has these pulse, durability and heat values.
FallbackFuel == "Fuel1-1 (fallback)"

ComponentNames ==
    {"Fuel1-1", "Fuel1-2", "Fuel2-1", "Fuel7-1", "Fuel8-1", "Fuel9-1", "Fuel11-1", FallbackFuel,
     "Vent1", "Exchanger1", "Coolant1", "Coolant6", "Reflector1", "Plate1",
     "Capacitor1", "Capacitor6", "Inlet1", "Outlet1"}

Stats(name) ==
    CASE name = "Fuel1-1" -> FuelStats(2, 1 * FP, 1000 * FP, 1, 2, 1)
      [] name = "Fuel1-2" -> FuelStats(2, 1 * FP, 1000 * FP, 2, 2, 2)
      [] name = "Fuel2-1" -> FuelStats(3, 1 * FP, 1900 * FP, 1, 2, 1)
      [] name = "Fuel7-1" -> FuelStats(16, 1 * FP, 10 * FP, 1, 2, 1)
      [] name = "Fuel8-1" -> FuelStats(17, 1 * FP, 10 * FP, 1, 2, 1)
      [] name = "Fuel9-1" -> FuelStats(18, 1 * FP, 10 * FP, 1, 16, 1)
      [] name = "Fuel11-1" -> FuelStats(20, 1 * FP, 10 * FP, 1, 2, 1)
      [] name = FallbackFuel ->
            [NoStats EXCEPT !.energy_per_pulse = 1 * FP, !.heat_per_pulse = 1 * FP,
                            !.pulses_produced = 1, !.max_durability = 100,
                            !.heat_capacity = 50 * FP, !.component_type_id = 2,
                            !.cost = 1 * FP]
      [] name = "Vent1" ->
            [NoStats EXCEPT !.type_of_component = "Vent", !.component_type_id = 8,
                            !.heat_capacity = 80 * FP, !.self_vent_rate = 4 * FP, !.cost = 2 * FP]
      [] name = "Exchanger1" ->
            [NoStats EXCEPT !.type_of_component = "Exchanger", !.component_type_id = 9,
                            !.heat_capacity = 80 * FP, !.self_vent_rate = 16 * FP, !.cost = 2 * FP]
      [] name = "Coolant1" ->
            [NoStats EXCEPT !.type_of_component = "Coolant", !.component_type_id = 10,
                            !.heat_capacity = 90 * FP, !.cost = 2 * FP]
      [] name = "Coolant6" ->
            [NoStats EXCEPT !.type_of_component = "Coolant", !.component_type_id = 10,
                            !.heat_capacity = 90 * FP, !.cant_lose_heat = TRUE,
                            !.tier = 6, !.cost = 2 * FP]
      [] name = "Reflector1" ->
            [NoStats EXCEPT !.type_of_component = "Reflector", !.component_type_id = 11,
                            !.reflects_pulses = 1, !.max_durability = 3,
                            !.cant_lose_heat = TRUE, !.cost = 2 * FP]
      [] name = "Plate1" ->
            [NoStats EXCEPT !.type_of_component = "Plating", !.component_type_id = 12,
                            !.reactor_heat_capacity_increase = 100 * FP, !.cost = 2 * FP]
      [] name = "Capacitor1" ->
            [NoStats EXCEPT !.type_of_component = "Capacitor", !.component_type_id = 13,
                            !.reactor_power_capacity_increase = 100 * FP,
                            !.heat_capacity = 10 * FP, !.cost = 2 * FP]
      [] name = "Capacitor6" ->
            [NoStats EXCEPT !.type_of_component = "Capacitor", !.component_type_id = 13,
                            !.reactor_power_capacity_increase = 100 * FP,
                            !.heat_capacity = 10 * FP, !.tier = 6, !.cost = 2 * FP]
      [] name = "Inlet1" ->
            [NoStats EXCEPT !.type_of_component = "Inlet", !.component_type_id = 14,
                            !.reactor_vent_rate = 16 * FP, !.cost = 2 * FP]
      [] name = "Outlet1" ->
            [NoStats EXCEPT !.type_of_component = "Outlet", !.component_type_id = 15,
                            !.reactor_vent_rate = 16 * FP, !.cost = 2 * FP]

(***************************************************************************)
(* ReactorComponent objects live in a heap keyed by object identity; the   *)
(* grid cells and the component list hold identities, as the Python lists   *)
(* hold references.  None is the absent reference.                          *)
(***************************************************************************)
None == 0

\* ReactorComponent(stats=...) followed by __post_init__
ReactorComponent(name) ==
    [stats |-> name, heat |-> 0,
     durability |-> IF Stats(name).max_durability > 0 THEN Stats(name).max_durability ELSE 0,
     last_power |-> 0, last_heat |-> 0, depleted |-> FALSE,
     grid_x |-> 0, grid_y |-> 0, grid_z |-> 0, pulse_count |-> 0]

\* The identity given to a newly constructed object: the least one not in use.
FreshId(w) == CHOOSE i \in 1..(Cardinality(DOMAIN w.heap) + 1) : i \notin DOMAIN w.heap

RECURSIVE SeqToSet(_)
SeqToSet(s) == IF s = <<>> THEN {} ELSE {Head(s)} \cup SeqToSet(Tail(s))

\* Objects referenced neither by a cell nor by the list are unreachable.
Collect(w) ==
    LET live == SeqToSet(w.components) \cup {w.cells[p] : p \in DOMAIN w.cells}
    IN [w EXCEPT !.heap = [i \in (DOMAIN w.heap) \cap live |-> w.heap[i]]]

\* list.remove(x): drops the first element that is x or compares equal to x
\* (dataclass equality compares every field); ValueError is swallowed.
RECURSIVE ListRemove(_, _, _)
ListRemove(heap, s, id) ==
    IF s = <<>> THEN <<>>
    ELSE IF Head(s) = id \/ heap[Head(s)] = heap[id] THEN Tail(s)
    ELSE <<Head(s)>> \o ListRemove(heap, Tail(s), id)

(***************************************************************************)
(* Grid: cells is the dense cell array, kept as the map from the occupied   *)
(* coordinates to the object stored there (every other cell holds None).    *)
(***************************************************************************)
in_bounds(w, x, y, z) ==
    0 <= x /\ x < w.width /\ 0 <= y /\ y < w.height /\ 0 <= z /\ z < Layers

\* the outcome of a call that raises IndexError (Grid.index out of bounds)
IndexError == 0 - 1

\* Grid.get without its bounds check: index() raises
grid_get_unchecked(w, x, y, z) ==
    IF ~(0 <= x /\ x < w.width /\ 0 <= y /\ y < w.height /\ 0 <= z /\ z < Layers)
    THEN IndexError
    ELSE IF <<x, y, z>> \in DOMAIN w.cells THEN w.cells[<<x, y, z>>] ELSE None

grid_get(w, x, y, z) ==
    IF ~in_bounds(w, x, y, z) THEN None
    ELSE IF <<x, y, z>> \in DOMAIN w.cells THEN w.cells[<<x, y, z>>] ELSE None

\* Grid.set for an in-bounds coordinate (index() raises otherwise)
grid_set(w, x, y, z, value) ==
    IF value = None
    THEN [w EXCEPT !.cells = [p \in (DOMAIN w.cells) \ {<<x, y, z>>} |-> w.cells[p]]]
    ELSE [w EXCEPT !.cells = [p \in (DOMAIN w.cells) \cup {<<x, y, z>>} |->
                                 IF p = <<x, y, z>> THEN value ELSE w.cells[p]]]

neighbors(w, x, y, z) ==
    (IF x > 0 THEN <<<<x - 1, y, z>>>> ELSE <<>>)
    \o (IF x < w.width - 1 THEN <<<<x + 1, y, z>>>> ELSE <<>>)
    \o (IF y > 0 THEN <<<<x, y - 1, z>>>> ELSE <<>>)
    \o (IF y < w.height - 1 THEN <<<<x, y + 1, z>>>> ELSE <<>>)

\* Position of a cell in iteration order (z, then y, then x)
CellKey(w, p) == (p[3] * w.height + p[2]) * w.width + p[1]

RECURSIVE SortCells(_, _)
SortCells(w, ps) ==
    IF ps = {} THEN <<>>
    ELSE LET p == CHOOSE q \in ps : \A r \in ps : CellKey(w, q) <= CellKey(w, r)
         IN <<p>> \o SortCells(w, ps \ {p})

\* iter_cells restricted to the cells that hold a component
iter_cells(w) == SortCells(w, DOMAIN w.cells)

\* manhattan_neighbors: dy outer, dx inner, diamond of the given radius
RECURSIVE ManhattanFrom(_, _, _, _, _, _, _)
ManhattanFrom(w, x, y, z, radius, dy, dx) ==
    IF dy > radius THEN <<>>
    ELSE IF dx > radius THEN ManhattanFrom(w, x, y, z, radius, dy + 1, 0 - radius)
    ELSE (IF ~(dx = 0 /\ dy = 0) /\ Abs(dx) + Abs(dy) <= radius
             /\ 0 <= x + dx /\ x + dx < w.width /\ 0 <= y + dy /\ y + dy < w.height
          THEN <<<<x + dx, y + dy, z>>>> ELSE <<>>)
         \o ManhattanFrom(w, x, y, z, radius, dy, dx + 1)

manhattan_neighbors(w, x, y, z, radius) ==
    ManhattanFrom(w, x, y, z, radius, 0 - radius, 0 - radius)

\* Grid.resize without the copy: the new array stays empty
resize_without_copy(w, new_width, new_height) ==
    IF new_width = w.width /\ new_height = w.height THEN w
    ELSE [w EXCEPT !.width = new_width, !.height = new_height, !.cells = <<>>]

\* Grid.resize: copies the overlapping region into a new array
resize(w, new_width, new_height) ==
    IF new_width = w.width /\ new_height = w.height THEN w
    ELSE [w EXCEPT !.width = new_width, !.height = new_height,
                   !.cells = [p \in {q \in DOMAIN w.cells :
                                        /\ q[1] < Min(w.width, new_width)
                                        /\ q[2] < Min(w.height, new_height)} |-> w.cells[p]]]

(***************************************************************************)
(* Simulation.  A world w is the whole aggregate: w.store (ResourceStore),  *)
(* w.upgrades (UpgradeManager.upgrades), w.heap / w.components / w.cells /  *)
(* w.width / w.height (component objects, component list, Grid) and w.sim   *)
(* (the scalar fields of Simulation).  Each method is an operator from the  *)
(* world before the call to the world after it.                             *)
(***************************************************************************)
_stat_mult(w, type_id, stat) == get_upgrade_stat_bonus(w.upgrades, type_id, stat)

RECURSIVE SumTiers(_, _, _)
SumTiers(w, type, k) ==
    IF k > Len(w.components) THEN 0
    ELSE (IF Stats(w.heap[w.components[k]].stats).type_of_component = type
          THEN Stats(w.heap[w.components[k]].stats).tier ELSE 0)
         + SumTiers(w, type, k + 1)

\* Sum of ComponentType.tier over the placed components of one TypeOfComponent
sum_component_tiers(w, type) == SumTiers(w, type, 1)

RECURSIVE CapacitySum(_, _, _)
CapacitySum(w, heat, k) ==
    IF k > Len(w.components) THEN 0
    ELSE LET st == Stats(w.heap[w.components[k]].stats)
             tid == st.component_type_id
         IN (IF heat
             THEN st.reactor_heat_capacity_increase * _stat_mult(w, tid, REACTOR_HEAT_CAP_INCREASE)
             ELSE st.reactor_power_capacity_increase * _stat_mult(w, tid, REACTOR_POWER_CAP_INCREASE))
            + CapacitySum(w, heat, k + 1)

MaxHeatFormula(w) ==
    FloorDiv((_stat_mult(w, 1, REACTOR_HEAT_CAP_INCREASE) * 1000 * FP + CapacitySum(w, TRUE, 1))
             * w.sim.heat_cap_mult, FP)

MaxPowerFormula(w) ==
    FloorDiv((_stat_mult(w, 1, REACTOR_POWER_CAP_INCREASE) * 100 * FP + CapacitySum(w, FALSE, 1))
             * w.sim.power_cap_mult, FP)

recompute_max_capacities(w) ==
    [w EXCEPT !.sim.max_reactor_heat = MaxHeatFormula(w),
              !.sim.max_reactor_power = MaxPowerFormula(w)]

resize_grid_for_subspace(w) ==
    LET level == IF NumUpgrades(w.upgrades) > SubspaceIndex
                 THEN w.upgrades[SubspaceIndex].level ELSE 0
        new_w == BaseWidth + level
        new_h == BaseHeight + level
    IN IF new_w # w.width \/ new_h # w.height
       THEN [resize(w, new_w, new_h) EXCEPT !.sim.pulses_dirty = TRUE]
       ELSE w

\* Simulation.sell_value(comp), in hundredths
sell_value(c) ==
    LET stats == Stats(c.stats)
        heat_ratio == FP - Min(FP, FloorDiv(c.heat * FP, stats.heat_capacity))
        after_heat == IF stats.heat_capacity > 0
                      THEN FloorDiv(stats.cost * heat_ratio * heat_ratio, FP * FP)
                      ELSE stats.cost
        dur_ratio == Max(0, FloorDiv(c.durability * FP, stats.max_durability))
        after_durability == IF stats.max_durability > 0
                            THEN FloorDiv(after_heat * dur_ratio * dur_ratio, FP * FP)
                            ELSE after_heat
    IN IF stats.pulses_produced > 0 THEN 0 ELSE after_durability

\* place_component(x, y, ReactorComponent(stats=name)); ret is the returned bool
\* place_component past its two checks: position the object, set its durability,
\* store it in the cell, append it to the list
PlaceInto(w, x, y, name) ==
    LET id == FreshId(w)
        c0 == [ReactorComponent(name) EXCEPT !.grid_x = x, !.grid_y = y, !.grid_z = 0]
        c1 == IF Stats(name).max_durability > 0
              THEN [c0 EXCEPT !.durability = Stats(name).max_durability
                                 * _stat_mult(w, Stats(name).component_type_id, MAX_DURABILITY)]
              ELSE c0
        w1 == [w EXCEPT !.heap = [i \in (DOMAIN w.heap) \cup {id} |->
                                     IF i = id THEN c1 ELSE w.heap[i]]]
        w2 == grid_set(w1, x, y, 0, id)
        w3 == [w2 EXCEPT !.components = Append(@, id), !.sim.pulses_dirty = TRUE]
    IN [w |-> recompute_max_capacities(w3), ret |-> TRUE]

\* place_component without its occupied-cell check
place_component_unchecked(w, x, y, name) ==
    IF ~in_bounds(w, x, y, 0) THEN [w |-> w, ret |-> FALSE]
    ELSE PlaceInto(w, x, y, name)

\* place_component(x, y, ReactorComponent(stats)); ret is the returned bool
place_component(w, x, y, name) ==
    IF ~in_bounds(w, x, y, 0) THEN [w |-> w, ret |-> FALSE]
    ELSE IF grid_get(w, x, y, 0) # None THEN [w |-> w, ret |-> FALSE]
    ELSE PlaceInto(w, x, y, name)

\* remove_component(x, y); ret is the returned object (None when nothing is removed),
\* removed is the object's value at the moment of the call
remove_component(w, x, y) ==
    IF ~in_bounds(w, x, y, 0) THEN [w |-> w, ret |-> None]
    ELSE IF grid_get(w, x, y, 0) = None THEN [w |-> w, ret |-> None]
    ELSE LET existing == grid_get(w, x, y, 0)
             w1 == grid_set(w, x, y, 0, None)
             w2 == [w1 EXCEPT !.components = ListRemove(w.heap, @, existing),
                              !.sim.pulses_dirty = TRUE]
         IN [w |-> Collect(recompute_max_capacities(w2)), ret |-> existing]

(***************************************************************************)
(* Prestige                                                                 *)
(***************************************************************************)
\* floor(4 ^ (log10(value) - 12)) for value >= 1e12, tabulated from the float
\* computation: the least value (in hundredths) at which each result is reached.
PrestigeSteps ==
    << Big(100000, 0), Big(316227, 766016838), Big(620127, 870518405),
       Big(999999, 999999998), Big(1448651, 923640275), Big(1961016, 511388140),
       Big(2533246, 556799603), Big(3162277, 660168373) >>

PrestigeTotalEp(value) == Cardinality({k \in 1..Len(PrestigeSteps) : BigLeq(PrestigeSteps[k], value)})

\* calculate_prestige_ep without the exotic particles already awarded
calculate_prestige_ep_unbanked(w) ==
    LET value == BigMin(w.store.total_power_produced, w.store.total_heat_dissipated)
    IN IF BigLess(value, PrestigeSteps[1]) THEN 0 ELSE PrestigeTotalEp(value)

\* calculate_prestige_ep with the threshold itself excluded
calculate_prestige_ep_above(w) ==
    LET value == BigMin(w.store.total_power_produced, w.store.total_heat_dissipated)
    IN IF BigLeq(value, PrestigeSteps[1]) THEN 0
       ELSE Max(0, PrestigeTotalEp(value) - (w.store.total_exotic_particles \div FP))

\* an int: whole exotic particles
calculate_prestige_ep(w) ==
    LET value == BigMin(w.store.total_power_produced, w.store.total_heat_dissipated)
    IN IF BigLess(value, PrestigeSteps[1]) THEN 0
       ELSE Max(0, PrestigeTotalEp(value) - (w.store.total_exotic_particles \div FP))

\* the grid emptied, the component list left as it is
ClearGrid_cells_only(w) == [w EXCEPT !.cells = <<>>]

ClearGrid(w) == [w EXCEPT !.cells = <<>>, !.components = <<>>, !.heap = <<>>]

\* a prestige that adds the award to the lifetime total only
do_prestige_total_only(w) ==
    LET ep_gain == calculate_prestige_ep(w)
        new_total == (w.store.total_exotic_particles \div FP) + ep_gain
        w1 == [w EXCEPT !.store.total_exotic_particles = new_total * FP]
        w2 == ClearGrid(w1)
        w3 == [w2 EXCEPT !.store.money = 0, !.store.money_earned_this_game = 0,
                         !.store.power = 0, !.store.power_produced_this_game = 0,
                         !.store.heat = 0, !.store.heat_dissipated_this_game = 0,
                         !.sim.reactor_heat = 0, !.sim.stored_power = 0,
                         !.sim.depleted_protium_count = 0]
        w4 == [w3 EXCEPT !.upgrades = [i \in DOMAIN @ |->
                                          IF ~@[i].is_prestige THEN [@[i] EXCEPT !.level = 0]
                                          ELSE @[i]],
                         !.sim.replace_mode = TRUE, !.sim.pulses_dirty = TRUE]
        w5 == recompute_max_capacities(w4)
        w6 == [w5 EXCEPT !.sim.prestige_confirming = FALSE, !.sim.prestige_can_refund = TRUE]
    IN [w |-> resize_grid_for_subspace(w6), ret |-> ep_gain]

do_prestige(w) ==
    LET ep_gain == calculate_prestige_ep(w)
        new_total == (w.store.total_exotic_particles \div FP) + ep_gain
        w1 == [w EXCEPT !.store.total_exotic_particles = new_total * FP,
                        !.store.exotic_particles = @ + ep_gain * FP]
        w2 == ClearGrid(w1)
        w3 == [w2 EXCEPT !.store.money = 0, !.store.money_earned_this_game = 0,
                         !.store.power = 0, !.store.power_produced_this_game = 0,
                         !.store.heat = 0, !.store.heat_dissipated_this_game = 0,
                         !.sim.reactor_heat = 0, !.sim.stored_power = 0,
                         !.sim.depleted_protium_count = 0]
        w4 == [w3 EXCEPT !.upgrades = [i \in DOMAIN @ |->
                                          IF ~@[i].is_prestige THEN [@[i] EXCEPT !.level = 0]
                                          ELSE @[i]],
                         !.sim.replace_mode = TRUE, !.sim.pulses_dirty = TRUE]
        w5 == recompute_max_capacities(w4)
        w6 == [w5 EXCEPT !.sim.prestige_confirming = FALSE, !.sim.prestige_can_refund = TRUE]
    IN [w |-> resize_grid_for_subspace(w6), ret |-> ep_gain]

\* a refund that resets every upgrade
refund_all_upgrades(w) ==
    [w EXCEPT !.upgrades = [i \in DOMAIN @ |-> [@[i] EXCEPT !.level = 0]],
              !.store.exotic_particles = w.store.total_exotic_particles,
              !.sim.prestige_can_refund = FALSE]

refund_prestige_upgrades(w) ==
    [w EXCEPT !.upgrades = [i \in DOMAIN @ |->
                               IF @[i].is_prestige THEN [@[i] EXCEPT !.level = 0] ELSE @[i]],
              !.store.exotic_particles = w.store.total_exotic_particles,
              !.sim.prestige_can_refund = FALSE]

reset_game(w) ==
    LET w1 == ClearGrid(w)
        w2 == [w1 EXCEPT !.store.money = 0, !.store.total_money = 0,
                         !.store.money_earned_this_game = 0, !.store.power = 0,
                         !.store.total_power_produced = BigZero,
                         !.store.power_produced_this_game = 0, !.store.heat = 0,
                         !.store.total_heat_dissipated = BigZero,
                         !.store.heat_dissipated_this_game = 0,
                         !.store.exotic_particles = 0, !.store.total_exotic_particles = 0,
                         !.sim.reactor_heat = 0, !.sim.stored_power = 0,
                         !.sim.depleted_protium_count = 0, !.sim.total_ticks = 0,
                         !.sim.view_mode = "reactor", !.sim.pulses_dirty = TRUE]
        w3 == [w2 EXCEPT !.upgrades = [i \in DOMAIN @ |-> [@[i] EXCEPT !.level = 0]],
                         !.sim.prestige_confirming = FALSE, !.sim.prestige_can_refund = FALSE]
    IN resize_grid_for_subspace(recompute_max_capacities(w3))

(***************************************************************************)
(* Manual buttons                                                           *)
(***************************************************************************)
add_money(st, amount) ==
    IF amount <= 0 THEN st
    ELSE [st EXCEPT !.money = @ + amount, !.total_money = @ + amount,
                    !.money_earned_this_game = @ + amount]

can_scrounge(w) == Len(w.components) = 0 /\ (w.store.money + w.sim.stored_power) < 10 * FP

sell_or_scrounge(w) ==
    IF can_scrounge(w) THEN [w EXCEPT !.store = add_money(@, 1 * FP)]
    ELSE [w EXCEPT !.sim.stored_power = 0,
                   !.store = add_money([@ EXCEPT !.power = 0], w.sim.stored_power)]

vent_heat(w) ==
    LET vented == Min(w.sim.reactor_heat, w.sim.manual_vent_amount)
    IN [w EXCEPT !.sim.reactor_heat = @ - vented, !.store.heat = w.sim.reactor_heat - vented]

auto_vent_rate_per_tick(w) ==
    FloorDiv(w.sim.max_reactor_heat * (_stat_mult(w, 1, AUTO_VENT_RATE) - 1), 100)
    + FloorDiv(w.sim.max_reactor_heat, 10000)

auto_sell_rate_per_tick(w) ==
    FloorDiv((_stat_mult(w, 1, AUTO_SELL_RATE) - 1) * w.sim.max_reactor_power, 100)

get_effective_heat_capacity(w, id) ==
    Stats(w.heap[id].stats).heat_capacity
    * _stat_mult(w, Stats(w.heap[id].stats).component_type_id, HEAT_CAPACITY)

(***************************************************************************)
(* Tick pipeline, stage by stage                                            *)
(***************************************************************************)
\* Stage 1: UpgradeManager.prepare_multipliers
prepare_multipliers(w) ==
    LET capacitor_tier_sum == sum_component_tiers(w, "Capacitor")
        plating_tier_sum == sum_component_tiers(w, "Plating")
        vent_eff == get_upgrade_stat_bonus(w.upgrades, 13, VENT_EFFECTIVENESS)
        exch_eff == get_upgrade_stat_bonus(w.upgrades, 13, EXCHANGER_EFFECTIVENESS)
        pwr_cap == get_upgrade_stat_bonus(w.upgrades, 12, VENT_CAPACITY)
        heat_cap == get_upgrade_stat_bonus(w.upgrades, 12, EXCHANGER_CAPACITY)
    IN [w EXCEPT !.sim.self_vent_mult = FloorDiv((vent_eff - 1) * capacitor_tier_sum * FP, 100) + FP,
                 !.sim.heat_exchange_mult = FloorDiv((exch_eff - 1) * capacitor_tier_sum * FP, 100) + FP,
                 !.sim.power_cap_mult = FloorDiv((pwr_cap - 1) * plating_tier_sum * FP, 100) + FP,
                 !.sim.heat_cap_mult = FloorDiv((heat_cap - 1) * plating_tier_sum * FP, 100) + FP,
                 !.sim.ticks_per_second = get_upgrade_stat_bonus(w.upgrades, 1, TICKS_PER_SECOND),
                 !.sim.manual_vent_amount = get_upgrade_stat_bonus(w.upgrades, 1, MANUAL_VENT) * FP,
                 !.sim.manual_sell_mult = get_upgrade_stat_bonus(w.upgrades, 1, MANUAL_SELL) * FP]

\* int(math.log2(cores) + 1) if cores >= 1 else 1
PulseScale(cores) ==
    IF cores < 1 THEN 1 ELSE IF cores < 2 THEN 1 ELSE IF cores < 4 THEN 2 ELSE IF cores < 8 THEN 3 ELSE 4

\* ncomp.pulse_count += pulses for every component found at the listed cells
RECURSIVE AddPulses(_, _, _, _)
AddPulses(w, heap, ps, pulses) ==
    IF ps = <<>> THEN heap
    ELSE LET n == grid_get(w, Head(ps)[1], Head(ps)[2], Head(ps)[3])
         IN AddPulses(w, IF n # None THEN [heap EXCEPT ![n].pulse_count = @ + pulses] ELSE heap,
                      Tail(ps), pulses)

\* the cells of row y other than column x, then of column x other than row y
RowCells(w, x, y, z) ==
    SortCells(w, {<<col, y, z>> : col \in (0..(w.width - 1)) \ {x}} \cap DOMAIN w.cells)
ColumnCells(w, x, y, z) ==
    SortCells(w, {<<x, row, z>> : row \in (0..(w.height - 1)) \ {y}} \cap DOMAIN w.cells)

RECURSIVE DistributeFrom(_, _, _)
DistributeFrom(w, heap, ps) ==
    IF ps = <<>> THEN heap
    ELSE LET p == Head(ps)
             id == w.cells[p]
             st == Stats(heap[id].stats)
         IN IF heap[id].depleted \/ st.pulses_produced <= 0
            THEN DistributeFrom(w, heap, Tail(ps))
            ELSE LET pulses == st.pulses_produced
                     h1 == [heap EXCEPT ![id].pulse_count = @ + PulseScale(st.number_of_cores) * pulses]
                     h2 == IF st.component_type_id = 20
                           THEN AddPulses(w, AddPulses(w, h1, RowCells(w, p[1], p[2], p[3]), pulses),
                                          ColumnCells(w, p[1], p[2], p[3]), pulses)
                           ELSE AddPulses(w, h1, neighbors(w, p[1], p[2], p[3]), pulses)
                 IN DistributeFrom(w, h2, Tail(ps))

\* The pulse counts _distribute_pulses leaves in the objects
DistributedHeap(w) ==
    DistributeFrom(w,
        [i \in DOMAIN w.heap |->
            IF i \in SeqToSet(w.components) THEN [w.heap[i] EXCEPT !.pulse_count = 0] ELSE w.heap[i]],
        iter_cells(w))

\* a distribution that adds to the counts the components hold
_distribute_pulses_accumulating(w) ==
    [w EXCEPT !.heap = DistributeFrom(w, w.heap, iter_cells(w))]

\* Stage 2
_distribute_pulses(w) == [w EXCEPT !.heap = DistributedHeap(w)]

\* sum of int(pulses_produced) over the non-depleted components at the listed cells
RECURSIVE NeighborPulseSum(_, _)
NeighborPulseSum(w, ps) ==
    IF ps = <<>> THEN 0
    ELSE LET n == grid_get(w, Head(ps)[1], Head(ps)[2], Head(ps)[3])
         IN (IF n # None /\ ~w.heap[n].depleted THEN Stats(w.heap[n].stats).pulses_produced ELSE 0)
            + NeighborPulseSum(w, Tail(ps))

\* the fuel branch with a replacement that leaves the pulse counts as they are
DrainFuel_replacing_quietly(w, id) ==
    LET st == Stats(w.heap[id].stats)
        w1 == [w EXCEPT !.heap[id].durability = @ - 1]
    IN IF ~(st.pulses_produced > 0 /\ st.max_durability > 0) THEN w
       ELSE IF w1.heap[id].durability > 0 THEN w1
       ELSE LET w2 == IF st.component_type_id = 16
                      THEN [w1 EXCEPT !.sim.depleted_protium_count = @ + 1] ELSE w1
            IN IF w2.sim.replace_mode /\ has_replaces_self(w2.upgrades, st.component_type_id)
               THEN [w2 EXCEPT !.heap[id].durability =
                                   st.max_durability * _stat_mult(w2, st.component_type_id, MAX_DURABILITY),
                               !.heap[id].heat = 0]
               ELSE [w2 EXCEPT !.heap[id].depleted = TRUE, !.sim.pulses_dirty = TRUE]

\* the fuel branch of _drain_durability for the component id
DrainFuel(w, id) ==
    LET st == Stats(w.heap[id].stats)
        w1 == [w EXCEPT !.heap[id].durability = @ - 1]
    IN IF ~(st.pulses_produced > 0 /\ st.max_durability > 0) THEN w
       ELSE IF w1.heap[id].durability > 0 THEN w1
       ELSE LET w2 == IF st.component_type_id = 16
                      THEN [w1 EXCEPT !.sim.depleted_protium_count = @ + 1] ELSE w1
                w3 == IF w2.sim.replace_mode /\ has_replaces_self(w2.upgrades, st.component_type_id)
                      THEN [w2 EXCEPT !.heap[id].durability =
                                          st.max_durability * _stat_mult(w2, st.component_type_id, MAX_DURABILITY),
                                      !.heap[id].heat = 0]
                      ELSE [w2 EXCEPT !.heap[id].depleted = TRUE]
            IN [w3 EXCEPT !.sim.pulses_dirty = TRUE]

\* the reflector branch of _drain_durability for the component at cell p
DrainReflector(w, id, p) ==
    LET st == Stats(w.heap[id].stats)
        w1 == [w EXCEPT !.heap[id].durability = @ - NeighborPulseSum(w, neighbors(w, p[1], p[2], p[3]))]
    IN IF ~(st.reflects_pulses > 0 /\ st.max_durability > 0) THEN w
       ELSE IF w1.heap[id].durability <= 0 THEN [w1 EXCEPT !.heap[id].depleted = TRUE]
       ELSE w1

RECURSIVE DrainFrom(_, _)
DrainFrom(w, ps) ==
    IF ps = <<>> THEN w
    ELSE LET id == w.cells[Head(ps)]
         IN IF w.heap[id].depleted THEN DrainFrom(w, Tail(ps))
            ELSE DrainFrom(DrainReflector(DrainFuel(w, id), id, Head(ps)), Tail(ps))

\* Stage 3
_drain_durability(w) == DrainFrom(w, iter_cells(w))

\* heat added to every component with heat_capacity > 0 found at the listed cells
RECURSIVE AddHeatToAbsorbers(_, _, _)
AddHeatToAbsorbers(w, ps, amount) ==
    IF ps = <<>> THEN w
    ELSE LET n == grid_get(w, Head(ps)[1], Head(ps)[2], Head(ps)[3])
         IN AddHeatToAbsorbers(
                IF n # None /\ Stats(w.heap[n].stats).heat_capacity > 0
                THEN [w EXCEPT !.heap[n].heat = @ + amount] ELSE w,
                Tail(ps), amount)

RECURSIVE CountAbsorbers(_, _)
CountAbsorbers(w, ps) ==
    IF ps = <<>> THEN 0
    ELSE LET n == grid_get(w, Head(ps)[1], Head(ps)[2], Head(ps)[3])
         IN (IF n # None /\ Stats(w.heap[n].stats).heat_capacity > 0 THEN 1 ELSE 0)
            + CountAbsorbers(w, Tail(ps))

\* reflector_mult in hundredths: 1.0 + 0.1 * bonus for each live reflector neighbour
RECURSIVE ReflectorMult(_, _)
ReflectorMult(w, ps) ==
    IF ps = <<>> THEN FP
    ELSE LET n == grid_get(w, Head(ps)[1], Head(ps)[2], Head(ps)[3])
         IN (IF n # None /\ Stats(w.heap[n].stats).reflects_pulses > 0 /\ ~w.heap[n].depleted
             THEN FloorDiv(FP * _stat_mult(w, Stats(w.heap[n].stats).component_type_id,
                                           REFLECTOR_EFFECTIVENESS), 10)
             ELSE 0)
            + ReflectorMult(w, Tail(ps))

\* log(h) / log(1000) in hundredths, by whole decades of h
RECURSIVE Decades(_)
Decades(h) == IF h < 10 THEN 0 ELSE 1 + Decades(h \div 10)
LogRatio(h) == FloorDiv(Decades(h \div FP) * FP, 3)

\* overheat multiplier in hundredths
OverheatMult(w) ==
    IF w.sim.reactor_heat > 1000 * FP
    THEN FloorDiv(LogRatio(w.sim.reactor_heat) * (get_upgrade_stat_bonus(w.upgrades, 1, CELL_EFFECTIVENESS) - 1), 100) + FP
    ELSE FP

\* occupied cells of the 7x7 square around (x, y)
MonastiumOccupied(w, x, y, z) ==
    Cardinality({p \in DOMAIN w.cells :
                    /\ p[3] = z /\ Abs(p[1] - x) <= 3 /\ Abs(p[2] - y) <= 3
                    /\ in_bounds(w, p[1], p[2], z)})

\* math.cos((durability / max_dur) * 8.0 * math.pi) in hundredths, by quarter turns:
\* exact when max_dur divides 16 * durability, as it does for the Kymium cell of the
\* catalog (max_durability 16, no durability upgrade), whose phase is a multiple of pi/2
KymiumCos(durability, max_dur) ==
    LET quarter == FloorDiv(16 * durability, max_dur) % 4
    IN CASE quarter = 0 -> FP
         [] quarter = 2 -> 0 - FP
         [] OTHER -> 0

\* the cosine factor of a Kymium cell (type 18), FP for every other cell and for a
\* Kymium cell whose upgraded max durability is not positive
KymiumFactor(w, c, sign) ==
    LET st == Stats(c.stats)
        max_dur == st.max_durability * _stat_mult(w, st.component_type_id, MAX_DURABILITY)
    IN IF st.component_type_id = 18 /\ max_dur > 0
       THEN FloorDiv(FP + sign * KymiumCos(c.durability, max_dur), 2)
       ELSE FP

\* power and heat of the fuel cell id at cell p
CellPower(w, id, p) ==
    LET c == w.heap[id]
        st == Stats(c.stats)
        tid == st.component_type_id
        base == c.pulse_count * st.energy_per_pulse * _stat_mult(w, tid, ENERGY_PER_PULSE)
        prot0 == IF tid = 16 THEN FloorDiv(base * (w.sim.depleted_protium_count + 100), 100) ELSE base
        prot == FloorDiv(prot0 * KymiumFactor(w, c, 0 - 1), FP)
        mona == IF tid = 17 THEN FloorDiv(prot * (100 - 2 * MonastiumOccupied(w, p[1], p[2], p[3])), 100)
                ELSE prot
    IN FloorDiv(FloorDiv(mona * ReflectorMult(w, neighbors(w, p[1], p[2], p[3])), FP) * OverheatMult(w), FP)

\* heat that grows with the pulse count, not with its square
CellHeat_linear(w, id) ==
    LET c == w.heap[id]
        st == Stats(c.stats)
        base == FloorDiv(c.pulse_count * st.heat_per_pulse
                         * _stat_mult(w, st.component_type_id, HEAT_PER_PULSE),
                         Max(1, st.cell_width * st.cell_height))
    IN FloorDiv(base * KymiumFactor(w, c, 1), FP)

CellHeat(w, id) ==
    LET c == w.heap[id]
        st == Stats(c.stats)
        base == FloorDiv(c.pulse_count * c.pulse_count * st.heat_per_pulse
                         * _stat_mult(w, st.component_type_id, HEAT_PER_PULSE),
                         Max(1, st.cell_width * st.cell_height))
    IN FloorDiv(base * KymiumFactor(w, c, 1), FP)

\* one live fuel cell of the loop with its heat given to the hull as well as to the
\* absorbing neighbours
GenerateCell_also_heating_hull(acc, p, power, heat, absorber_count) ==
    [w |-> IF absorber_count > 0
           THEN AddHeatToAbsorbers(
                    [acc.w EXCEPT !.heap[acc.w.cells[p]].last_power = power,
                                  !.heap[acc.w.cells[p]].last_heat = heat],
                    neighbors(acc.w, p[1], p[2], p[3]), FloorDiv(heat, absorber_count))
           ELSE [acc.w EXCEPT !.heap[acc.w.cells[p]].last_power = power,
                              !.heap[acc.w.cells[p]].last_heat = heat],
     total_power |-> acc.total_power + power,
     total_heat_to_reactor |-> acc.total_heat_to_reactor + heat]

\* one live fuel cell of the loop: acc = [w, total_power, total_heat_to_reactor],
\* p the cell, power and heat its output, absorber_count its heat-absorbing neighbours
GenerateCell(acc, p, power, heat, absorber_count) ==
    [w |-> IF absorber_count > 0
           THEN AddHeatToAbsorbers(
                    [acc.w EXCEPT !.heap[acc.w.cells[p]].last_power = power,
                                  !.heap[acc.w.cells[p]].last_heat = heat],
                    neighbors(acc.w, p[1], p[2], p[3]), FloorDiv(heat, absorber_count))
           ELSE [acc.w EXCEPT !.heap[acc.w.cells[p]].last_power = power,
                              !.heap[acc.w.cells[p]].last_heat = heat],
     total_power |-> acc.total_power + power,
     total_heat_to_reactor |-> acc.total_heat_to_reactor
                               + (IF absorber_count > 0 THEN 0 ELSE heat)]

\* the loop over the grid; reactor_heat is read as it was when the stage began (it is
\* only written after the loop)
RECURSIVE GenerateFrom(_, _)
GenerateFrom(acc, ps) ==
    IF ps = <<>> THEN acc
    ELSE IF \/ acc.w.heap[acc.w.cells[Head(ps)]].depleted
            \/ Stats(acc.w.heap[acc.w.cells[Head(ps)]].stats).energy_per_pulse <= 0
         THEN GenerateFrom(acc, Tail(ps))
         ELSE GenerateFrom(
                  GenerateCell(acc, Head(ps),
                               CellPower(acc.w, acc.w.cells[Head(ps)], Head(ps)),
                               CellHeat(acc.w, acc.w.cells[Head(ps)]),
                               CountAbsorbers(acc.w, neighbors(acc.w, Head(ps)[1], Head(ps)[2], Head(ps)[3]))),
                  Tail(ps))

\* the end of stage 4 with the lifetime power set to the tick's power
GenerateResult_not_added(r) ==
    [w |-> [r.w EXCEPT !.sim.stored_power = @ + r.total_power,
                       !.sim.reactor_heat = @ + r.total_heat_to_reactor,
                       !.store.total_power_produced = Big(0, r.total_power),
                       !.store.power_produced_this_game = @ + r.total_power],
     power_gen |-> r.total_power, heat_gen |-> r.total_heat_to_reactor]

\* the end of stage 4: r is what the loop accumulated
GenerateResult(r) ==
    [w |-> [r.w EXCEPT !.sim.stored_power = @ + r.total_power,
                       !.sim.reactor_heat = @ + r.total_heat_to_reactor,
                       !.store.total_power_produced = BigAdd(@, r.total_power),
                       !.store.power_produced_this_game = @ + r.total_power],
     power_gen |-> r.total_power, heat_gen |-> r.total_heat_to_reactor]

\* Stage 4; returns the world and the (power, heat) pair the method returns
_generate_power_and_heat(w) ==
    GenerateResult(GenerateFrom([w |-> w, total_power |-> 0, total_heat_to_reactor |-> 0],
                                iter_cells(w)))

\* one exchanger (id) against the neighbours at the listed cells, the transfer not
\* limited by the rate
RECURSIVE ExchangeWith_unlimited(_, _, _, _, _)
ExchangeWith_unlimited(w, id, ps, rate, comp_cap) ==
    IF ps = <<>> THEN w
    ELSE LET n == grid_get(w, Head(ps)[1], Head(ps)[2], Head(ps)[3])
             ncap == get_effective_heat_capacity(w, n)
             total_heat == w.heap[id].heat + w.heap[n].heat
             total_cap == comp_cap + ncap
             target_neighbor == FloorDiv(Max(0, Min(total_cap, total_heat)) * ncap, total_cap)
             transfer == target_neighbor - w.heap[n].heat
         IN IF n = None \/ w.heap[n].depleted \/ Stats(w.heap[n].stats).cant_lose_heat
               \/ ncap <= 0 \/ total_cap <= 0 \/ transfer = 0
            THEN ExchangeWith_unlimited(w, id, Tail(ps), rate, comp_cap)
            ELSE ExchangeWith_unlimited(
                     [w EXCEPT !.heap[n].heat = @ + transfer, !.heap[id].heat = @ - transfer],
                     id, Tail(ps), rate, comp_cap)

\* one exchanger (id) against the neighbours at the listed cells
RECURSIVE ExchangeWith(_, _, _, _, _)
ExchangeWith(w, id, ps, rate, comp_cap) ==
    IF ps = <<>> THEN w
    ELSE LET n == grid_get(w, Head(ps)[1], Head(ps)[2], Head(ps)[3])
             ncap == get_effective_heat_capacity(w, n)
             total_heat == w.heap[id].heat + w.heap[n].heat
             total_cap == comp_cap + ncap
             target_neighbor == FloorDiv(Max(0, Min(total_cap, total_heat)) * ncap, total_cap)
             delta == target_neighbor - w.heap[n].heat
             transfer == Max(0 - rate, Min(rate, delta))
         IN IF n = None \/ w.heap[n].depleted \/ Stats(w.heap[n].stats).cant_lose_heat
               \/ ncap <= 0 \/ total_cap <= 0 \/ transfer = 0
            THEN ExchangeWith(w, id, Tail(ps), rate, comp_cap)
            ELSE ExchangeWith([w EXCEPT !.heap[n].heat = @ + transfer, !.heap[id].heat = @ - transfer],
                              id, Tail(ps), rate, comp_cap)

RECURSIVE HeatExchangeFrom(_, _)
HeatExchangeFrom(w, ps) ==
    IF ps = <<>> THEN w
    ELSE LET p == Head(ps)
             id == w.cells[p]
             st == Stats(w.heap[id].stats)
             rate == FloorDiv(st.self_vent_rate * _stat_mult(w, st.component_type_id, ADJACENT_TRANSFER_RATE)
                              * w.sim.heat_exchange_mult, FP)
             comp_cap == get_effective_heat_capacity(w, id)
         IN IF w.heap[id].depleted \/ st.type_of_component # "Exchanger"
               \/ st.self_vent_rate <= 0 \/ comp_cap <= 0
            THEN HeatExchangeFrom(w, Tail(ps))
            ELSE HeatExchangeFrom(ExchangeWith(w, id, neighbors(w, p[1], p[2], p[3]), rate, comp_cap),
                                  Tail(ps))

\* Stage 5
_heat_exchange(w) == HeatExchangeFrom(w, iter_cells(w))

\* one Extreme Coolant (id) absorbing from the listed cells
RECURSIVE AbsorbFrom(_, _, _)
AbsorbFrom(w, id, ps) ==
    IF ps = <<>> THEN w
    ELSE LET n == grid_get(w, Head(ps)[1], Head(ps)[2], Head(ps)[3])
             absorbed == FloorDiv(w.heap[n].heat, 10)
         IN IF n = None \/ Stats(w.heap[n].stats).heat_capacity <= 0
               \/ Stats(w.heap[n].stats).cant_lose_heat
            THEN AbsorbFrom(w, id, Tail(ps))
            ELSE AbsorbFrom([[w EXCEPT !.heap[n].heat = @ - absorbed]
                                EXCEPT !.heap[id].heat = @ + absorbed], id, Tail(ps))

RECURSIVE CoolantFrom(_, _)
CoolantFrom(w, k) ==
    IF k > Len(w.components) THEN w
    ELSE LET id == w.components[k]
             c == w.heap[id]
         IN IF Stats(c.stats).type_of_component # "Coolant" \/ c.stats # "Coolant6" \/ c.depleted
            THEN CoolantFrom(w, k + 1)
            ELSE CoolantFrom(AbsorbFrom(w, id, manhattan_neighbors(w, c.grid_x, c.grid_y, 0, 2)), k + 1)

\* Stage 5b
_extreme_coolant_absorb(w) == CoolantFrom(w, 1)

\* reactor_vent_rate * bonus * heat_exchange_mult of the component id
HullRate(w, id) ==
    LET st == Stats(w.heap[id].stats)
    IN FloorDiv(st.reactor_vent_rate * _stat_mult(w, st.component_type_id, REACTOR_TRANSFER_RATE)
                * w.sim.heat_exchange_mult, FP)

\* the cardinal neighbours of the position recorded in the object
OwnNeighbors(w, id) == neighbors(w, w.heap[id].grid_x, w.heap[id].grid_y, 0)

\* pass 1 of _exchange_with_hull
RECURSIVE TotalOutletCapacity(_, _)
TotalOutletCapacity(w, k) ==
    IF k > Len(w.components) THEN 0
    ELSE LET id == w.components[k]
             st == Stats(w.heap[id].stats)
         IN (IF st.reactor_vent_rate <= 0 \/ w.heap[id].depleted \/ st.type_of_component # "Outlet"
             THEN 0
             ELSE CountAbsorbers(w, OwnNeighbors(w, id)) * HullRate(w, id))
            + TotalOutletCapacity(w, k + 1)

\* an inlet that pulls from every neighbour, thermally isolated or not
RECURSIVE InletPull_from_any(_, _, _)
InletPull_from_any(w, ps, rate) ==
    IF ps = <<>> THEN w
    ELSE LET n == grid_get(w, Head(ps)[1], Head(ps)[2], Head(ps)[3])
             transfer == Min(rate, w.heap[n].heat)
         IN IF n = None \/ transfer <= 0
            THEN InletPull_from_any(w, Tail(ps), rate)
            ELSE InletPull_from_any([w EXCEPT !.heap[n].heat = @ - transfer,
                                              !.sim.reactor_heat = @ + transfer],
                                    Tail(ps), rate)

\* an inlet pulling from the neighbours at the listed cells
RECURSIVE InletPull(_, _, _)
InletPull(w, ps, rate) ==
    IF ps = <<>> THEN w
    ELSE LET n == grid_get(w, Head(ps)[1], Head(ps)[2], Head(ps)[3])
             transfer == Min(rate, w.heap[n].heat)
         IN IF n = None \/ Stats(w.heap[n].stats).cant_lose_heat \/ transfer <= 0
            THEN InletPull(w, Tail(ps), rate)
            ELSE InletPull([w EXCEPT !.heap[n].heat = @ - transfer,
                                     !.sim.reactor_heat = @ + transfer], Tail(ps), rate)

\* an outlet that heats its neighbours and leaves the hull as it was
RECURSIVE OutletPush_for_free(_, _, _)
OutletPush_for_free(w, ps, transfer_per) ==
    IF ps = <<>> THEN w
    ELSE LET n == grid_get(w, Head(ps)[1], Head(ps)[2], Head(ps)[3])
         IN IF n # None /\ Stats(w.heap[n].stats).heat_capacity > 0
            THEN OutletPush_for_free([w EXCEPT !.heap[n].heat = @ + transfer_per],
                                     Tail(ps), transfer_per)
            ELSE OutletPush_for_free(w, Tail(ps), transfer_per)

\* an outlet pushing transfer_per into each absorbing neighbour at the listed cells
RECURSIVE OutletPush(_, _, _)
OutletPush(w, ps, transfer_per) ==
    IF ps = <<>> THEN w
    ELSE LET n == grid_get(w, Head(ps)[1], Head(ps)[2], Head(ps)[3])
         IN IF n # None /\ Stats(w.heap[n].stats).heat_capacity > 0
            THEN OutletPush([w EXCEPT !.heap[n].heat = @ + transfer_per,
                                      !.sim.reactor_heat = @ - transfer_per], Tail(ps), transfer_per)
            ELSE OutletPush(w, Tail(ps), transfer_per)

\* pass 2; dist_ratio is the fraction ratio_num / total_outlet_capacity
RECURSIVE HullPass2(_, _, _, _)
HullPass2(w, k, total_outlet_capacity, ratio_num) ==
    IF k > Len(w.components) THEN w
    ELSE LET id == w.components[k]
             st == Stats(w.heap[id].stats)
             rate == HullRate(w, id)
             absorber_count == CountAbsorbers(w, OwnNeighbors(w, id))
             transfer_total == Min(FloorDiv(ratio_num * (rate * absorber_count), total_outlet_capacity),
                                   w.sim.reactor_heat)
             next == IF st.reactor_vent_rate <= 0 \/ w.heap[id].depleted THEN w
                     ELSE IF st.type_of_component = "Inlet" THEN InletPull(w, OwnNeighbors(w, id), rate)
                     ELSE IF st.type_of_component = "Outlet"
                          THEN IF total_outlet_capacity <= 0 \/ absorber_count = 0 THEN w
                               ELSE OutletPush(w, OwnNeighbors(w, id),
                                               FloorDiv(transfer_total, absorber_count))
                     ELSE w
         IN HullPass2(next, k + 1, total_outlet_capacity, ratio_num)

\* Stage 6
_exchange_with_hull(w) ==
    LET total_outlet_capacity == TotalOutletCapacity(w, 1)
        ratio_num == IF total_outlet_capacity > 0
                     THEN Max(0, Min(total_outlet_capacity, w.sim.reactor_heat)) ELSE 0
    IN HullPass2(w, 1, total_outlet_capacity, ratio_num)

\* acc = [w, total_vented]
RECURSIVE VentFrom(_, _)
VentFrom(acc, k) ==
    IF k > Len(acc.w.components) THEN acc
    ELSE LET w == acc.w
             id == w.components[k]
             st == Stats(w.heap[id].stats)
             rate == FloorDiv(st.self_vent_rate * _stat_mult(w, st.component_type_id, SELF_VENT_RATE)
                              * w.sim.self_vent_mult, FP)
             vented == Min(w.heap[id].heat, rate)
             left == w.heap[id].heat - vented
         IN IF st.self_vent_rate <= 0 \/ st.type_of_component \in {"Exchanger", "Inlet", "Outlet"}
            THEN VentFrom(acc, k + 1)
            ELSE VentFrom([w |-> [w EXCEPT !.heap[id].heat = IF left < 1 THEN 0 ELSE left],
                           total_vented |-> acc.total_vented + vented], k + 1)

\* Stage 7; returns the world and the vented total the method returns
_vent_heat_to_air(w) ==
    LET r == VentFrom([w |-> w, total_vented |-> 0], 1)
    IN [w |-> [r.w EXCEPT !.store.total_heat_dissipated = BigAdd(@, r.total_vented),
                          !.store.heat_dissipated_this_game = @ + r.total_vented],
        total_vented |-> r.total_vented]

\* heat overflow: 5% of the excess to every live component with heat capacity
RECURSIVE OverflowFrom(_, _, _)
OverflowFrom(w, k, overflow) ==
    IF k > Len(w.components) THEN w
    ELSE LET id == w.components[k]
         IN OverflowFrom(
                IF Stats(w.heap[id].stats).heat_capacity > 0 /\ ~w.heap[id].depleted
                THEN [w EXCEPT !.heap[id].heat = @ + FloorDiv(overflow * 5, 100)] ELSE w,
                k + 1, overflow)

\* the destruction list, in list order
RECURSIVE ToDestroy(_, _, _)
ToDestroy(w, k, is_meltdown) ==
    IF k > Len(w.components) THEN <<>>
    ELSE LET id == w.components[k]
             st == Stats(w.heap[id].stats)
             eff_cap == st.heat_capacity * _stat_mult(w, st.component_type_id, HEAT_CAPACITY)
             hit == IF w.heap[id].depleted THEN FALSE
                    ELSE IF st.heat_capacity > 0 THEN is_meltdown \/ w.heap[id].heat >= eff_cap
                    ELSE is_meltdown
         IN (IF hit THEN <<id>> ELSE <<>>) \o ToDestroy(w, k + 1, is_meltdown)

\* executes the destruction list; grid.set raises IndexError for a component whose
\* recorded position is outside the grid, which ends the tick (and the program)
RECURSIVE Destroy(_, _)
Destroy(w, ids) ==
    IF ids = <<>> THEN [w |-> w, raised |-> FALSE]
    ELSE LET c == w.heap[Head(ids)]
         IN IF ~in_bounds(w, c.grid_x, c.grid_y, c.grid_z) THEN [w |-> w, raised |-> TRUE]
            ELSE Destroy([grid_set(w, c.grid_x, c.grid_y, c.grid_z, None)
                             EXCEPT !.components = ListRemove(w.heap, @, Head(ids))],
                         Tail(ids))

RECURSIVE ClampResiduals(_, _)
ClampResiduals(w, k) ==
    IF k > Len(w.components) THEN w
    ELSE ClampResiduals(IF w.heap[w.components[k]].heat < 1
                        THEN [w EXCEPT !.heap[w.components[k]].heat = 0] ELSE w, k + 1)

\* Stage 8; raised tells whether the method ended in an IndexError
_check_explosions(w) ==
    LET max_heat == w.sim.max_reactor_heat
        is_meltdown == max_heat > 0 /\ w.sim.reactor_heat >= 2 * max_heat
        w1 == IF w.sim.reactor_heat > max_heat /\ max_heat > 0
              THEN OverflowFrom(w, 1, w.sim.reactor_heat - max_heat) ELSE w
        to_destroy == ToDestroy(w1, 1, is_meltdown)
        d == Destroy(w1, to_destroy)
        w2 == IF to_destroy # <<>>
              THEN recompute_max_capacities([d.w EXCEPT !.sim.pulses_dirty = TRUE]) ELSE d.w
    IN IF d.raised THEN [w |-> Collect(d.w), raised |-> TRUE]
       ELSE [w |-> Collect(ClampResiduals(w2, 1)), raised |-> FALSE]

\* Stage 9: automatic hull venting
AutoVent(w, net_heat_accumulator) ==
    LET normal == auto_vent_rate_per_tick(w)
        auto_vent == IF w.sim.reactor_heat > w.sim.max_reactor_heat /\ net_heat_accumulator <= 0
                     THEN Max(normal, FloorDiv((w.sim.reactor_heat - w.sim.max_reactor_heat) * 5, 100))
                     ELSE normal
        vented == Min(w.sim.reactor_heat, auto_vent)
    IN IF auto_vent > 0 /\ w.sim.reactor_heat > 0
       THEN [w EXCEPT !.sim.reactor_heat = @ - vented,
                      !.store.total_heat_dissipated = BigAdd(@, vented),
                      !.store.heat_dissipated_this_game = @ + vented]
       ELSE w

\* Extreme Capacitor heat from auto-sell
RECURSIVE CapacitorHeat(_, _, _, _, _)
CapacitorHeat(w, k, auto_sell_mult, sold, auto_sell) ==
    IF k > Len(w.components) THEN w
    ELSE LET id == w.components[k]
             c == w.heap[id]
             st == Stats(c.stats)
             power_cap_inc == st.reactor_power_capacity_increase
                              * _stat_mult(w, st.component_type_id, REACTOR_POWER_CAP_INCREASE)
             heated == c.heat + FloorDiv(auto_sell_mult * power_cap_inc * 5 * sold, 1000 * auto_sell)
             eff_cap == get_effective_heat_capacity(w, id)
         IN CapacitorHeat(
                IF st.type_of_component = "Capacitor" /\ c.stats = "Capacitor6" /\ ~c.depleted
                THEN [w EXCEPT !.heap[id].heat = IF eff_cap > 0 /\ heated > eff_cap THEN eff_cap ELSE heated]
                ELSE w,
                k + 1, auto_sell_mult, sold, auto_sell)

\* Stage 10: automatic power sale
AutoSell(w) ==
    LET auto_sell == auto_sell_rate_per_tick(w)
        sold == Min(w.sim.stored_power, auto_sell)
        auto_sell_mult == get_upgrade_stat_bonus(w.upgrades, 1, AUTO_SELL_RATE) - 1
        w1 == [w EXCEPT !.sim.stored_power = @ - sold, !.store = add_money(@, sold)]
    IN IF auto_sell > 0 /\ w.sim.stored_power > 0
       THEN IF auto_sell_mult > 0 THEN CapacitorHeat(w1, 1, auto_sell_mult, sold, auto_sell) ELSE w1
       ELSE w

\* the display fields synced, the power left as it is
ClampAndSync_unclamped(w) ==
    [w EXCEPT !.store.power = w.sim.stored_power, !.store.heat = w.sim.reactor_heat]

\* Stage 11: clamp power, sync the display fields
ClampAndSync(w) ==
    LET p == Min(w.sim.stored_power, w.sim.max_reactor_power)
    IN [w EXCEPT !.sim.stored_power = p, !.store.power = p, !.store.heat = w.sim.reactor_heat]

(***************************************************************************)
(* State                                                                    *)
(***************************************************************************)
VARIABLES
    store,       \* ResourceStore
    upgrade_data, \* the upgrade definitions UpgradeManager.load has read
    levels,      \* the level of each entry of UpgradeManager.upgrades
    heap,        \* the ReactorComponent objects
    components,  \* Simulation.components
    cells,       \* Grid.cells
    width,       \* Grid.width
    height,      \* Grid.height
    sim,         \* scalar fields of Simulation
    pc,          \* position inside _do_tick ("idle" between ticks)
    tk,          \* locals of the running _do_tick
    ret          \* the last public call: its name, arguments and return value

vars == <<store, upgrade_data, levels, heap, components, cells, width, height, sim, pc, tk, ret>>

\* UpgradeManager.upgrades: the loaded definitions, each with its level
upgrades ==
    [i \in DOMAIN Catalogs[upgrade_data] |->
        [Catalogs[upgrade_data][i] EXCEPT !.level = levels[i]]]

World ==
    [store |-> store, upgrades |-> upgrades, heap |-> heap, components |-> components,
     cells |-> cells, width |-> width, height |-> height, sim |-> sim]

SetWorld(w) ==
    /\ store' = w.store
    /\ levels' = [i \in DOMAIN w.upgrades |-> w.upgrades[i].level]
    /\ upgrade_data' = upgrade_data
    /\ heap' = w.heap
    /\ components' = w.components
    /\ cells' = w.cells
    /\ width' = w.width
    /\ height' = w.height
    /\ sim' = w.sim

\* inputs of the model
PlaceCells == {<<0, 0>>, <<1, 0>>, <<20, 0>>}
PlaceNames == {"Fuel1-1", "Vent1"}
PurchaseIndices == {-1, 0, 1, 3, 4, SubspaceIndex, SubspaceIndex + 1}
Views == {"reactor", "upgrades", "prestige", "options"}

\* Lifetime totals a session starts with: a new game, or a game resumed from its
\* autosave with 1e12 - 0.01, 1e12 or 1e13 of lifetime power and heat.
InitLifetime == {BigZero, Big(99999, 999999999), Big(100000, 0), Big(1000000, 0)}

InitStore(lifetime) ==
    [money |-> 0, total_money |-> 0, money_earned_this_game |-> 0,
     power |-> 0, total_power_produced |-> lifetime, power_produced_this_game |-> 0,
     heat |-> 0, total_heat_dissipated |-> lifetime, heat_dissipated_this_game |-> 0,
     exotic_particles |-> 0, total_exotic_particles |-> 0]

InitSim ==
    [reactor_heat |-> 0, stored_power |-> 0,
     max_reactor_heat |-> 1000 * FP, max_reactor_power |-> 100 * FP,
     manual_vent_amount |-> FP, manual_sell_mult |-> FP,
     self_vent_mult |-> FP, heat_exchange_mult |-> FP,
     power_cap_mult |-> FP, heat_cap_mult |-> FP,
     paused |-> FALSE, replace_mode |-> TRUE, depleted_protium_count |-> 0,
     pulses_dirty |-> TRUE, ticks_per_second |-> 1, tick_accumulator |-> 0,
     total_ticks |-> 0,
     prestige_confirming |-> FALSE, prestige_can_refund |-> FALSE,
     view_mode |-> "reactor"]

\* locals of step(dt), and what the frame loop did in the frame before
NoStep ==
    [active |-> FALSE, dt |-> 0, tick_interval |-> 0, due |-> 0, ticks |-> 0,
     after_suppressed |-> FALSE, suppressed |-> FALSE]

InitTk ==
    [heat_gen |-> 0, power_gen |-> 0, heat_before_hull |-> 0, hull_exchange |-> 0,
     component_vented |-> 0, net_heat_accumulator |-> 0,
     trace |-> <<>>, start_heat |-> 0, start_max_heat |-> 0, start_dirty |-> FALSE,
     step |-> NoStep]

NoCall == [op |-> "none", args |-> <<>>, val |-> <<>>]

InitWith(lifetimes) ==
    /\ store \in {InitStore(l) : l \in lifetimes}
    /\ upgrade_data = 1
    /\ levels = [i \in DOMAIN UpgradeCatalog |-> 0]
    /\ heap = <<>>
    /\ components = <<>>
    /\ cells = <<>>
    /\ width = BaseWidth
    /\ height = BaseHeight
    /\ sim = InitSim
    /\ pc = "idle"
    /\ tk = InitTk
    /\ ret = NoCall

Init == InitWith(InitLifetime)

(***************************************************************************)
(* Public operations (each runs between ticks)                              *)
(***************************************************************************)
Idle == pc = "idle"

\* place_component(x, y, ReactorComponent(stats)), called between ticks from the
\* reactor view
Place(x, y, name) ==
    /\ Idle /\ sim.view_mode = "reactor"
    /\ Len(components) < MaxComponents
    /\ \E r \in {place_component(World, x, y, name)} :
          /\ SetWorld(r.w)
          /\ ret' = [op |-> "place", args |-> <<x, y, name>>, val |-> r.ret]
    /\ UNCHANGED <<pc, tk>>

\* Simulation.get_component_cost, in hundredths
get_component_cost(w, name) ==
    LET d == get_component_discount(w.upgrades)
    IN FloorDiv(Stats(name).cost * d[1], d[2])

\* Simulation.can_replace(existing, new_type)
can_replace(existing, name) ==
    IF existing.stats = name /\ ~existing.depleted THEN FALSE
    ELSE IF Stats(existing.stats).pulses_produced > 0 /\ Stats(name).pulses_produced > 0 THEN TRUE
    ELSE IF Stats(existing.stats).type_of_component # "" /\ Stats(name).type_of_component # ""
         THEN Stats(existing.stats).type_of_component = Stats(name).type_of_component
    ELSE FALSE

\* main(): what a left click on the cell (x, y) does to the game with the component
\* name selected; ret tells which branch ran
click_cell(w, x, y, name) ==
    LET existing == grid_get(w, x, y, 0)
        cost == get_component_cost(w, name)
    IN IF existing = None
       THEN IF w.store.money >= cost
            THEN LET r == place_component(w, x, y, name)
                 IN IF r.ret
                    THEN [w |-> [r.w EXCEPT !.store.money = @ - cost], ret |-> "placed"]
                    ELSE [w |-> r.w, ret |-> "refused"]
            ELSE [w |-> w, ret |-> "too dear"]
       ELSE IF can_replace(w.heap[existing], name)
            THEN LET refund == sell_value(w.heap[existing])
                 IN IF w.store.money + refund >= cost
                    THEN LET removed == remove_component(w, x, y).w
                             paid == [removed EXCEPT !.store.money = @ + refund]
                             r == place_component(paid, x, y, name)
                         IN IF r.ret
                            THEN [w |-> [r.w EXCEPT !.store.money = @ - cost],
                                  ret |-> "replaced"]
                            ELSE [w |-> r.w, ret |-> "removed"]
                    ELSE [w |-> w, ret |-> "too dear"]
            ELSE [w |-> w, ret |-> "kept"]

\* a left click that places and replaces without looking at the money
ClickCell_on_credit(x, y, name) ==
    /\ Idle /\ sim.view_mode = "reactor"
    /\ in_bounds(World, x, y, 0)
    /\ grid_get(World, x, y, 0) = None => Len(components) < MaxComponents
    /\ \E r \in {click_cell([World EXCEPT !.store.money = @ + 1000 * FP], x, y, name)} :
          /\ SetWorld([r.w EXCEPT !.store.money = @ - 1000 * FP])
          /\ ret' = [op |-> "click", args |-> <<x, y, name>>, val |-> r.ret]
    /\ UNCHANGED <<pc, tk>>

\* main(): left click on a cell of the grid in the reactor view, between ticks
ClickCell(x, y, name) ==
    /\ Idle /\ sim.view_mode = "reactor"
    /\ in_bounds(World, x, y, 0)
    /\ grid_get(World, x, y, 0) = None => Len(components) < MaxComponents
    /\ \E r \in {click_cell(World, x, y, name)} :
          /\ SetWorld(r.w)
          /\ ret' = [op |-> "click", args |-> <<x, y, name>>, val |-> r.ret]
    /\ UNCHANGED <<pc, tk>>

\* remove_component(x, y), called between ticks from the reactor view
Remove(x, y) ==
    /\ Idle /\ sim.view_mode = "reactor"
    /\ \E r \in {remove_component(World, x, y)} :
          /\ SetWorld(r.w)
          /\ ret' = [op |-> "remove", args |-> <<x, y>>, val |-> r.ret]
    /\ UNCHANGED <<pc, tk>>

\* Ui.draw_upgrades: what follows an accepted click
AfterPurchase(w, idx) ==
    IF idx = SubspaceIndex THEN resize_grid_for_subspace(recompute_max_capacities(w))
    ELSE recompute_max_capacities(w)

\* Ui.draw_upgrades: click on an upgrade.  purchase() validates the click again; r is
\* what it returns, stored into the upgrade manager and the resource store.
Purchase(idx) ==
    /\ Idle /\ sim.view_mode \in {"upgrades", "prestige"}
    /\ idx \in DOMAIN upgrades => upgrades[idx].level < MaxLevel
    /\ \E r \in {purchase(upgrades, idx, store.money, store.exotic_particles)} :
          /\ \E w \in {[World EXCEPT !.upgrades = r.upgrades, !.store.money = r.money,
                                     !.store.exotic_particles = r.ep]} :
                SetWorld(IF can_purchase(upgrades, idx, store.money, store.exotic_particles)
                         THEN Collect(AfterPurchase(w, idx)) ELSE w)
          /\ ret' = [op |-> "purchase", args |-> <<idx, store.money, store.exotic_particles>>,
                     val |-> <<r.money, r.ep>>]
    /\ UNCHANGED <<pc, tk>>

\* a view button that leaves the prestige phases as they are
Navigate_keeping_phase(view) ==
    /\ Idle /\ view # sim.view_mode
    /\ sim' = [sim EXCEPT !.view_mode = view]
    /\ ret' = [op |-> "navigate", args |-> <<view>>, val |-> <<>>]
    /\ UNCHANGED <<store, upgrade_data, levels, heap, components, cells, width, height, pc, tk>>

\* main(): a view button; leaving the options view clears the prestige phases
Navigate(view) ==
    /\ Idle /\ view # sim.view_mode
    /\ sim' = IF view # "options"
              THEN [sim EXCEPT !.view_mode = view, !.prestige_confirming = FALSE,
                               !.prestige_can_refund = FALSE]
              ELSE [sim EXCEPT !.view_mode = view]
    /\ ret' = [op |-> "navigate", args |-> <<view>>, val |-> <<>>]
    /\ UNCHANGED <<store, upgrade_data, levels, heap, components, cells, width, height, pc, tk>>

\* Ui.draw_options_panel: the prestige button in its three phases
PrestigeAsk ==
    /\ Idle /\ sim.view_mode = "options"
    /\ ~sim.prestige_can_refund /\ ~sim.prestige_confirming
    /\ sim' = [sim EXCEPT !.prestige_confirming = TRUE]
    /\ ret' = [op |-> "prestige_ask", args |-> <<>>, val |-> <<>>]
    /\ UNCHANGED <<store, upgrade_data, levels, heap, components, cells, width, height, pc, tk>>

DoPrestige ==
    /\ Idle /\ sim.view_mode = "options"
    /\ ~sim.prestige_can_refund /\ sim.prestige_confirming
    /\ \E r \in {do_prestige(World)} :
          /\ SetWorld(r.w)
          /\ ret' = [op |-> "do_prestige", args |-> <<>>, val |-> r.ret]
    /\ UNCHANGED <<pc, tk>>

Refund ==
    /\ Idle /\ sim.view_mode = "options"
    /\ sim.prestige_can_refund
    /\ SetWorld(refund_prestige_upgrades(World))
    /\ ret' = [op |-> "refund", args |-> <<>>, val |-> <<>>]
    /\ UNCHANGED <<pc, tk>>

\* Ui.draw_options_panel: second click on Reset Game
ResetGame ==
    /\ Idle /\ sim.view_mode = "options"
    /\ SetWorld(reset_game(World))
    /\ ret' = [op |-> "reset_game", args |-> <<>>, val |-> <<>>]
    /\ UNCHANGED <<pc, tk>>

\* the Sell All Power button
SellOrScrounge ==
    /\ Idle /\ sim.view_mode = "reactor"
    /\ store.total_money < MaxMoney * FP
    /\ SetWorld(sell_or_scrounge(World))
    /\ ret' = [op |-> "sell_or_scrounge", args |-> <<>>,
               val |-> IF can_scrounge(World) THEN 1 * FP ELSE sim.stored_power]
    /\ UNCHANGED <<pc, tk>>

\* the Vent Heat button
VentHeat ==
    /\ Idle /\ sim.view_mode = "reactor"
    /\ SetWorld(vent_heat(World))
    /\ ret' = [op |-> "vent_heat", args |-> <<>>,
               val |-> Min(sim.reactor_heat, sim.manual_vent_amount)]
    /\ UNCHANGED <<pc, tk>>

(***************************************************************************)
(* _do_tick, one action per stage.  pc names the stage that runs next;      *)
(* tk.trace lists the stages the running tick has executed.                 *)
(***************************************************************************)
TickRet == [op |-> "tick", args |-> <<>>, val |-> <<>>]

Ran(stage) == [tk EXCEPT !.trace = Append(@, stage)]

\* tick entry and stage 1
TickPrepare ==
    /\ IF pc = "do_tick" THEN TRUE
       ELSE Idle /\ sim.view_mode = "reactor" /\ ~sim.paused /\ sim.total_ticks < MaxTicks
    /\ SetWorld(prepare_multipliers([World EXCEPT !.sim.total_ticks = @ + 1]))
    /\ tk' = [InitTk EXCEPT !.trace = <<"prepare">>, !.start_heat = sim.reactor_heat,
                            !.start_max_heat = sim.max_reactor_heat,
                            !.start_dirty = sim.pulses_dirty, !.step = tk.step]
    /\ pc' = "distribute"
    /\ ret' = TickRet

\* stage 2, only when the pulse-dirty flag is set
TickDistribute ==
    /\ pc = "distribute"
    /\ IF sim.pulses_dirty
       THEN /\ SetWorld([_distribute_pulses(World) EXCEPT !.sim.pulses_dirty = FALSE])
            /\ tk' = Ran("distribute")
       ELSE /\ SetWorld(World)
            /\ tk' = tk
    /\ pc' = "drain"
    /\ ret' = TickRet

TickDrain ==
    /\ pc = "drain"
    /\ SetWorld(_drain_durability(World))
    /\ tk' = Ran("drain")
    /\ pc' = "generate"
    /\ ret' = TickRet

TickGenerate ==
    /\ pc = "generate"
    /\ \E r \in {_generate_power_and_heat(World)} :
          /\ SetWorld(r.w)
          /\ tk' = [Ran("generate") EXCEPT !.power_gen = r.power_gen, !.heat_gen = r.heat_gen]
    /\ pc' = "heat_exchange"
    /\ ret' = TickRet

TickHeatExchange ==
    /\ pc = "heat_exchange"
    /\ SetWorld(_heat_exchange(World))
    /\ tk' = Ran("heat_exchange")
    /\ pc' = "coolant"
    /\ ret' = TickRet

TickCoolant ==
    /\ pc = "coolant"
    /\ SetWorld(_extreme_coolant_absorb(World))
    /\ tk' = Ran("coolant")
    /\ pc' = "hull"
    /\ ret' = TickRet

TickHull ==
    /\ pc = "hull"
    /\ \E w \in {_exchange_with_hull(World)} :
          /\ SetWorld(w)
          /\ tk' = [Ran("hull") EXCEPT !.heat_before_hull = sim.reactor_heat,
                                       !.hull_exchange = w.sim.reactor_heat - sim.reactor_heat]
    /\ pc' = "vent"
    /\ ret' = TickRet

\* stage 7 with the hull exchange added to the net heat accumulator
TickVent_hull_added ==
    /\ pc = "vent"
    /\ \E r \in {_vent_heat_to_air(World)} :
          /\ SetWorld(r.w)
          /\ tk' = [Ran("vent") EXCEPT !.component_vented = r.total_vented,
                        !.net_heat_accumulator = tk.heat_gen + r.total_vented + tk.hull_exchange]
    /\ pc' = "explode"
    /\ ret' = TickRet

\* stage 7, and the net heat accumulator built right after it
TickVent ==
    /\ pc = "vent"
    /\ \E r \in {_vent_heat_to_air(World)} :
          /\ SetWorld(r.w)
          /\ tk' = [Ran("vent") EXCEPT !.component_vented = r.total_vented,
                        !.net_heat_accumulator = tk.heat_gen + r.total_vented - tk.hull_exchange]
    /\ pc' = "explode"
    /\ ret' = TickRet

TickExplode ==
    /\ pc = "explode"
    /\ \E r \in {_check_explosions(World)} :
          /\ SetWorld(r.w)
          /\ pc' = IF r.raised THEN "crashed" ELSE "autovent"
    /\ tk' = Ran("explode")
    /\ ret' = TickRet

TickAutoVent ==
    /\ pc = "autovent"
    /\ SetWorld(AutoVent(World, tk.net_heat_accumulator))
    /\ tk' = Ran("autovent")
    /\ pc' = "autosell"
    /\ ret' = TickRet

TickAutoSell ==
    /\ pc = "autosell"
    /\ SetWorld(AutoSell(World))
    /\ tk' = Ran("autosell")
    /\ pc' = "clamp"
    /\ ret' = TickRet

TickClamp ==
    /\ pc = "clamp"
    /\ SetWorld(ClampAndSync(World))
    /\ tk' = Ran("clamp")
    /\ pc' = IF tk.step.active THEN "step_loop" ELSE "idle"
    /\ ret' = TickRet

\* Time in the model: TimeScale units make one second, so that 1.0 / ticks_per_second
\* is a whole number of units for 1 to 4 ticks per second.
TimeScale == 12

\* step(dt) up to its loop: the interval is computed once, from the ticks_per_second
\* the last tick left
StepEnter(dt) ==
    LET tick_interval == IF sim.ticks_per_second > 0
                         THEN TimeScale \div sim.ticks_per_second ELSE TimeScale
    IN /\ sim.total_ticks + ((sim.tick_accumulator + dt) \div tick_interval) <= MaxTicks
       /\ sim' = [sim EXCEPT !.tick_accumulator = @ + dt]
       /\ tk' = [tk EXCEPT !.step = [active |-> TRUE, dt |-> dt,
                                     tick_interval |-> tick_interval,
                                     due |-> (sim.tick_accumulator + dt) \div tick_interval,
                                     ticks |-> 0,
                                     after_suppressed |-> tk.step.suppressed,
                                     suppressed |-> FALSE]]
       /\ pc' = "step_loop"
       /\ ret' = [op |-> "step", args |-> <<dt>>, val |-> <<>>]

\* the top of a frame with the accumulator left to accrue while ticks are suppressed
Frame_accruing(dt) ==
    /\ Idle
    /\ IF ~sim.paused /\ sim.view_mode = "reactor"
       THEN StepEnter(dt)
       ELSE /\ sim' = [sim EXCEPT !.tick_accumulator = (@ + dt) % TimeScale]
            /\ tk' = [tk EXCEPT !.step = [NoStep EXCEPT !.suppressed = TRUE]]
            /\ pc' = pc
            /\ ret' = [op |-> "frame", args |-> <<dt>>, val |-> <<>>]
    /\ UNCHANGED <<store, upgrade_data, levels, heap, components, cells, width, height>>

\* main(): the top of a frame.  Ticks run only when the game is not paused and the
\* reactor view is open; otherwise the accumulator is reset.
Frame(dt) ==
    /\ Idle
    /\ IF ~sim.paused /\ sim.view_mode = "reactor"
       THEN StepEnter(dt)
       ELSE /\ sim' = [sim EXCEPT !.tick_accumulator = 0]
            /\ tk' = [tk EXCEPT !.step = [NoStep EXCEPT !.suppressed = TRUE]]
            /\ pc' = pc
            /\ ret' = [op |-> "frame", args |-> <<dt>>, val |-> <<>>]
    /\ UNCHANGED <<store, upgrade_data, levels, heap, components, cells, width, height>>

\* step(dt): the test of the while loop, and the subtraction before _do_tick
StepLoop ==
    /\ pc = "step_loop"
    /\ IF sim.tick_accumulator >= tk.step.tick_interval
       THEN /\ sim' = [sim EXCEPT !.tick_accumulator = @ - tk.step.tick_interval]
            /\ tk' = [tk EXCEPT !.step.ticks = @ + 1]
            /\ pc' = "do_tick"
       ELSE /\ sim' = sim
            /\ tk' = [tk EXCEPT !.step.active = FALSE]
            /\ pc' = "idle"
    /\ ret' = [op |-> "step", args |-> <<tk.step.dt>>, val |-> <<>>]
    /\ UNCHANGED <<store, upgrade_data, levels, heap, components, cells, width, height>>

\* main(): the Replace button
ToggleReplace ==
    /\ Idle
    /\ sim' = [sim EXCEPT !.replace_mode = ~@]
    /\ ret' = [op |-> "toggle_replace", args |-> <<>>, val |-> <<>>]
    /\ UNCHANGED <<store, upgrade_data, levels, heap, components, cells, width, height, pc, tk>>

\* main(): the space key or the pause button
TogglePause ==
    /\ Idle
    /\ sim' = [sim EXCEPT !.paused = ~@]
    /\ ret' = [op |-> "toggle_pause", args |-> <<>>, val |-> <<>>]
    /\ UNCHANGED <<store, upgrade_data, levels, heap, components, cells, width, height, pc, tk>>

Tick ==
    \/ TickPrepare \/ TickDistribute \/ TickDrain \/ TickGenerate \/ TickHeatExchange
    \/ TickCoolant \/ TickHull \/ TickVent \/ TickExplode \/ TickAutoVent
    \/ TickAutoSell \/ TickClamp

(***************************************************************************)
(* save.py: the snapshot of a simulation and its restoration.  json.dumps   *)
(* and json.loads carry every number, boolean and string of the snapshot    *)
(* over unchanged, and float(), int() and bool() leave a value of their own *)
(* type as it is; what restoration changes comes from the constructor of    *)
(* ReactorComponent and from the steps of _restore_from_dict.               *)
(***************************************************************************)
RECURSIVE SavedComponents(_, _)
SavedComponents(w, k) ==
    IF k > Len(w.components) THEN <<>>
    ELSE LET comp == w.heap[w.components[k]]
         IN <<[name |-> comp.stats, heat |-> comp.heat, durability |-> comp.durability,
               depleted |-> comp.depleted,
               x |-> comp.grid_x, y |-> comp.grid_y, z |-> comp.grid_z]>>
            \o SavedComponents(w, k + 1)

_build_save_dict(w) ==
    [store |-> w.store,
     upgrade_levels |-> [i \in DOMAIN w.upgrades |-> w.upgrades[i].level],
     reactor_heat |-> w.sim.reactor_heat,
     stored_power |-> w.sim.stored_power,
     depleted_protium_count |-> w.sim.depleted_protium_count,
     paused |-> w.sim.paused,
     replace_mode |-> w.sim.replace_mode,
     total_ticks |-> w.sim.total_ticks,
     components |-> SavedComponents(w, 1)]

\* ReactorComponent(stats, heat, durability, depleted, grid_x, grid_y, grid_z)
\* followed by __post_init__
RestoredComponent(d) ==
    [stats |-> d.name, heat |-> d.heat,
     durability |-> IF d.durability = 0 /\ Stats(d.name).max_durability > 0
                    THEN Stats(d.name).max_durability ELSE d.durability,
     last_power |-> 0, last_heat |-> 0, depleted |-> d.depleted,
     grid_x |-> d.x, grid_y |-> d.y, grid_z |-> d.z, pulse_count |-> 0]

\* a loop over data["components"] that gives up at the first entry it cannot place
RECURSIVE RestoreComponents_aborting(_, _)
RestoreComponents_aborting(w, cs) ==
    IF cs = <<>> THEN w
    ELSE IF Head(cs).name \notin ComponentNames THEN w
    ELSE LET rc == RestoredComponent(Head(cs))
             id == FreshId(w)
             w1 == [w EXCEPT !.heap = [i \in (DOMAIN w.heap) \cup {id} |->
                                          IF i = id THEN rc ELSE w.heap[i]]]
         IN IF in_bounds(w, rc.grid_x, rc.grid_y, rc.grid_z)
            THEN RestoreComponents_aborting(
                    [grid_set(w1, rc.grid_x, rc.grid_y, rc.grid_z, id)
                        EXCEPT !.components = Append(@, id)], Tail(cs))
            ELSE w

\* the loop over data["components"]
RECURSIVE RestoreComponents(_, _)
RestoreComponents(w, cs) ==
    IF cs = <<>> THEN w
    ELSE IF Head(cs).name \notin ComponentNames THEN RestoreComponents(w, Tail(cs))
    ELSE LET rc == RestoredComponent(Head(cs))
             id == FreshId(w)
             w1 == [w EXCEPT !.heap = [i \in (DOMAIN w.heap) \cup {id} |->
                                          IF i = id THEN rc ELSE w.heap[i]]]
         IN IF in_bounds(w, rc.grid_x, rc.grid_y, rc.grid_z)
            THEN RestoreComponents(
                    [grid_set(w1, rc.grid_x, rc.grid_y, rc.grid_z, id)
                        EXCEPT !.components = Append(@, id)], Tail(cs))
            ELSE RestoreComponents(w, Tail(cs))

_restore_from_dict(w, data) ==
    LET w1 == [w EXCEPT !.store = data.store]
        w2 == [w1 EXCEPT !.upgrades =
                  [i \in DOMAIN w1.upgrades |->
                      IF i \in DOMAIN data.upgrade_levels
                      THEN [w1.upgrades[i] EXCEPT !.level = data.upgrade_levels[i]]
                      ELSE w1.upgrades[i]]]
        w3 == resize_grid_for_subspace(w2)
        w4 == [w3 EXCEPT !.sim.reactor_heat = data.reactor_heat,
                         !.sim.stored_power = data.stored_power,
                         !.sim.depleted_protium_count = data.depleted_protium_count,
                         !.sim.paused = data.paused,
                         !.sim.replace_mode = data.replace_mode,
                         !.sim.total_ticks = data.total_ticks]
        w5 == [w4 EXCEPT !.cells = <<>>, !.components = <<>>, !.heap = <<>>]
        w6 == RestoreComponents(w5, data.components)
        w7 == recompute_max_capacities([w6 EXCEPT !.sim.pulses_dirty = TRUE])
    IN [w |-> [w7 EXCEPT !.store.power = w7.sim.stored_power,
                         !.store.heat = w7.sim.reactor_heat],
        ret |-> TRUE]

\* The running game is exported and the exported text imported again, between
\* ticks; ret.val is the snapshot that was restored.
SaveAndRestore ==
    /\ Idle
    /\ \E data \in {_build_save_dict(World)} :
          /\ SetWorld(_restore_from_dict(World, data).w)
          /\ ret' = [op |-> "restore", args |-> <<>>, val |-> data]
    /\ UNCHANGED <<pc, tk>>

\* import_save_from_file of a text that was edited after its export: cs is its
\* component list, h its reactor heat and level its level of Subspace Expansion.
\* ret.val holds the snapshot and what _restore_from_dict returned.
ImportEdited(cs, h, level) ==
    /\ Idle
    /\ \E data \in {[_build_save_dict(World) EXCEPT
                          !.components = cs, !.reactor_heat = h, !.store.heat = h,
                          !.upgrade_levels[SubspaceIndex] = level]} :
          \E r \in {_restore_from_dict(World, data)} :
             /\ SetWorld(r.w)
             /\ ret' = [op |-> "import", args |-> <<>>,
                        val |-> [data |-> data, ok |-> r.ret]]
    /\ UNCHANGED <<pc, tk>>

(***************************************************************************)
(* The grid and the component list: placing, removing, ticking, buying      *)
(* Subspace Expansion, prestige, refund and reset, in a game resumed with   *)
(* 1e13 of lifetime power and heat.                                         *)
(***************************************************************************)
GridCells == {<<0, 0>>, <<20, 0>>}
GridViews == {"reactor", "upgrades", "options"}

InitGrid == InitWith({Big(1000000, 0)})

NextGrid ==
    \/ \E c \in GridCells : Place(c[1], c[2], "Vent1")
    \/ \E c \in GridCells : Remove(c[1], c[2])
    \/ Purchase(SubspaceIndex)
    \/ \E view \in GridViews : Navigate(view)
    \/ PrestigeAsk
    \/ DoPrestige
    \/ Refund
    \/ ResetGame
    \/ Tick

SpecGrid == InitGrid /\ [][NextGrid]_vars

(***************************************************************************)
(* Upgrades: buying with scrounged money and with the exotic particles of   *)
(* a prestige, refunding, resetting.                                        *)
(***************************************************************************)
NextUpgrades ==
    \/ \E idx \in PurchaseIndices : Purchase(idx)
    \/ \E view \in Views : Navigate(view)
    \/ SellOrScrounge
    \/ PrestigeAsk
    \/ DoPrestige
    \/ Refund
    \/ ResetGame

SpecUpgrades == Init /\ [][NextUpgrades]_vars

(***************************************************************************)
(* get_upgrade_stat_bonus, asked of either upgrade file at the levels a     *)
(* loaded save can hold.                                                    *)
(***************************************************************************)
BonusTypes == {1, 2, 12}
BonusStats == 0..UPGRADE_DISCOUNT

\* levels a game can hold: the first three upgrades of the file bought up to
\* MaxLevel times (a one-time upgrade once, and only with its prerequisite owned)
SavedLevels(cat) ==
    {lv \in {[i \in DOMAIN cat |-> IF i <= 2 THEN t[i + 1] ELSE 0] :
                t \in (0..MaxLevel) \X (0..MaxLevel) \X (0..MaxLevel)} :
        \A i \in DOMAIN cat :
            /\ cat[i].cost_multiplier = 0 => lv[i] <= 1
            /\ (lv[i] > 0 /\ cat[i].prerequisite >= 0) => lv[cat[i].prerequisite] > 0}

InitBonus ==
    /\ upgrade_data \in DOMAIN Catalogs
    /\ levels \in SavedLevels(Catalogs[upgrade_data])
    /\ store = InitStore(BigZero)
    /\ heap = <<>>
    /\ components = <<>>
    /\ cells = <<>>
    /\ width = BaseWidth
    /\ height = BaseHeight
    /\ sim = InitSim
    /\ pc = "idle"
    /\ tk = InitTk
    /\ ret = NoCall

\* a call of get_upgrade_stat_bonus(component_type, stat_category)
GetBonus(ct, sc) ==
    /\ ret' = [op |-> "get_upgrade_stat_bonus", args |-> <<ct, sc>>,
               val |-> get_upgrade_stat_bonus(upgrades, ct, sc)]
    /\ UNCHANGED <<store, upgrade_data, levels, heap, components, cells, width, height,
                   sim, pc, tk>>

NextBonus == \E ct \in BonusTypes, sc \in BonusStats : GetBonus(ct, sc)

SpecBonus == InitBonus /\ [][NextBonus]_vars

(***************************************************************************)
(* The tick: a new game in which fuel cells and vents are placed and        *)
(* removed between ticks.                                                   *)
(***************************************************************************)
TickCells == {<<0, 0>>, <<1, 0>>}

NextTick ==
    \/ \E c \in TickCells, name \in PlaceNames : Place(c[1], c[2], name)
    \/ \E c \in TickCells : Remove(c[1], c[2])
    \/ Tick

InitTick == InitWith({BigZero})

SpecTick == InitTick /\ [][NextTick]_vars

(***************************************************************************)
(* The stages of a tick: a fuel cell or a heat outlet beside a vent.        *)
(***************************************************************************)
NextStages ==
    \/ \E name \in {"Fuel1-1", "Outlet1"} : Place(0, 0, name)
    \/ Place(1, 0, "Vent1")
    \/ Remove(0, 0)
    \/ Tick

SpecStages == InitTick /\ [][NextStages]_vars

(***************************************************************************)
(* The frame loop: frames of three lengths, the pause key, and the upgrade  *)
(* that raises ticks_per_second, in a game resumed with money.              *)
(***************************************************************************)
FrameTimes == {5, 7, 12}
StepViews == {"reactor", "upgrades"}
ChronometerIndex == 5

\* _do_tick, entered from the loop of step() only
StepTick == pc # "idle" /\ Tick

NextStep ==
    \/ \E dt \in FrameTimes : Frame(dt)
    \/ StepLoop
    \/ StepTick
    \/ TogglePause
    \/ \E view \in StepViews : Navigate(view)
    \/ SellOrScrounge
    \/ Purchase(ChronometerIndex)

SpecStep == InitTick /\ [][NextStep]_vars

(***************************************************************************)
(* Prestige: a game resumed from its autosave with 1e13 of lifetime power   *)
(* and heat, money, stored power and hull heat, in which a plating is       *)
(* placed, the reactor ticks, and upgrades that raise the reactor's         *)
(* capacities are bought with money and with exotic particles.              *)
(***************************************************************************)
PrestigeIndices == {0, 6}

\* a game resumed with an empty grid, no upgrades, and the given store and fields
InitGame(st, sm) ==
    /\ store = st
    /\ upgrade_data = 1
    /\ levels = [i \in DOMAIN UpgradeCatalog |-> 0]
    /\ heap = <<>>
    /\ components = <<>>
    /\ cells = <<>>
    /\ width = BaseWidth
    /\ height = BaseHeight
    /\ sim = sm
    /\ pc = "idle"
    /\ tk = InitTk
    /\ ret = NoCall

\* ep: the exotic particles the resumed game holds, none of them spent
InitResumed(ep) ==
    InitGame([InitStore(Big(1000000, 0)) EXCEPT
                 !.exotic_particles = ep, !.total_exotic_particles = ep,
                 !.money = 3 * FP, !.total_money = 3 * FP,
                 !.money_earned_this_game = 3 * FP,
                 !.power = 7 * FP, !.power_produced_this_game = 9 * FP,
                 !.heat = 5 * FP, !.heat_dissipated_this_game = 2 * FP],
             [InitSim EXCEPT !.reactor_heat = 5 * FP, !.stored_power = 7 * FP])

InitPrestige == InitResumed(0)

NextPrestige ==
    \/ Place(0, 0, "Plate1")
    \/ Remove(0, 0)
    \/ \E idx \in PrestigeIndices : Purchase(idx)
    \/ \E view \in GridViews : Navigate(view)
    \/ PrestigeAsk
    \/ DoPrestige
    \/ Refund
    \/ ResetGame
    \/ Tick

SpecPrestige == InitPrestige /\ [][NextPrestige]_vars

(***************************************************************************)
(* The prestige methods called directly, as a caller other than the options *)
(* panel may: do_prestige and refund_prestige_upgrades in any state of the  *)
(* resumed game, between placements and purchases.                          *)
(***************************************************************************)
CallDoPrestige ==
    /\ Idle
    /\ \E r \in {do_prestige(World)} :
          /\ SetWorld(r.w)
          /\ ret' = [op |-> "do_prestige", args |-> <<>>, val |-> r.ret]
    /\ UNCHANGED <<pc, tk>>

\* Grid.resize called on the grid of the game
CallResize(new_width, new_height) ==
    /\ Idle
    /\ SetWorld(resize(World, new_width, new_height))
    /\ ret' = [op |-> "resize", args |-> <<new_width, new_height>>, val |-> <<>>]
    /\ UNCHANGED <<pc, tk>>

\* the four coordinate queries of Grid, asked of the grid as it stands
Query(x, y, z, radius) ==
    /\ Idle
    /\ ret' = [op |-> "query", args |-> <<x, y, z, radius>>,
               val |-> [in_bounds |-> in_bounds(World, x, y, z),
                        get |-> grid_get(World, x, y, z),
                        neighbors |-> neighbors(World, x, y, z),
                        manhattan_neighbors |-> manhattan_neighbors(World, x, y, z, radius)]]
    /\ UNCHANGED <<store, upgrade_data, levels, heap, components, cells, width, height,
                   sim, pc, tk>>

\* the options panel showing the exotic particles the next prestige would award
CalculateEp ==
    /\ Idle
    /\ ret' = [op |-> "calculate_prestige_ep", args |-> <<>>,
               val |-> calculate_prestige_ep(World)]
    /\ UNCHANGED <<store, upgrade_data, levels, heap, components, cells, width, height,
                   sim, pc, tk>>

CallRefund ==
    /\ Idle
    /\ SetWorld(refund_prestige_upgrades(World))
    /\ ret' = [op |-> "refund", args |-> <<>>, val |-> <<>>]
    /\ UNCHANGED <<pc, tk>>

NextCalls ==
    \/ Place(0, 0, "Plate1")
    \/ Remove(0, 0)
    \/ \E idx \in PrestigeIndices : Purchase(idx)
    \/ \E view \in GridViews : Navigate(view)
    \/ CallDoPrestige
    \/ CallRefund

InitCalls == InitResumed(2 * FP)

SpecCalls == InitCalls /\ [][NextCalls]_vars

(***************************************************************************)
(* Lifetime totals: a game resumed one hundredth below 1e12 of lifetime     *)
(* power and heat and with a little hull heat, in which a fuel cell is      *)
(* placed, the reactor ticks, heat is vented and power sold by hand, the    *)
(* auto-sell upgrade is bought, and prestige follows.                       *)
(***************************************************************************)
AutoSellIndex == 2

InitTotals ==
    InitGame([InitStore(Big(99999, 999999999)) EXCEPT !.heat = 1 * FP],
             [InitSim EXCEPT !.reactor_heat = 1 * FP])

\* the Vent Heat button, pressed while a resumed game's hull heat lasts
VentResumedHeat == sim.reactor_heat <= 1 * FP /\ VentHeat

\* the ticks of a short session, one tick fewer than MaxTicks
TotalsTick == (pc # "idle" \/ sim.total_ticks < MaxTicks - 1) /\ Tick

NextTotals ==
    \/ Place(0, 0, "Fuel1-1")
    \/ Remove(0, 0)
    \/ TotalsTick
    \/ VentResumedHeat
    \/ SellOrScrounge
    \/ Purchase(AutoSellIndex)
    \/ \E view \in GridViews : Navigate(view)
    \/ PrestigeAsk
    \/ DoPrestige
    \/ Refund

SpecTotals == InitTotals /\ [][NextTotals]_vars

(***************************************************************************)
(* The shop: components placed and sold back before any tick, with the      *)
(* upgrade that raises the durability of reflectors bought in between.      *)
(***************************************************************************)
ShopNames == {"Reflector1", "Vent1", "Fuel1-1"}
ReflectorDurabilityIndex == 7

\* main(): the refund shown and paid for the component in a cell
SellValue(x, y) ==
    /\ Idle /\ sim.view_mode = "reactor"
    /\ <<x, y, 0>> \in DOMAIN cells
    /\ ret' = [op |-> "sell_value", args |-> <<x, y>>,
               val |-> sell_value(heap[cells[<<x, y, 0>>]])]
    /\ UNCHANGED <<store, upgrade_data, levels, heap, components, cells, width, height,
                   sim, pc, tk>>

NextShop ==
    \/ \E c \in TickCells, name \in ShopNames : Place(c[1], c[2], name)
    \/ \E c \in TickCells : Remove(c[1], c[2])
    \/ \E c \in TickCells : SellValue(c[1], c[2])
    \/ Purchase(ReflectorDurabilityIndex)
    \/ \E view \in StepViews : Navigate(view)

SpecShop == InitPrestige /\ [][NextShop]_vars

(***************************************************************************)
(* Saving and restoring: fuel cells that deplete within two ticks, a vent,  *)
(* and an upgrade bought, in a game resumed with money.                     *)
(***************************************************************************)
NextSave ==
    \/ \E name \in PlaceNames : Place(0, 0, name)
    \/ Remove(0, 0)
    \/ Tick
    \/ Purchase(AutoSellIndex)
    \/ \E v \in StepViews : Navigate(v)
    \/ SaveAndRestore

SpecSave == InitPrestige /\ [][NextSave]_vars

(***************************************************************************)
(* Importing an edited snapshot: component entries with an unknown name, a  *)
(* position above the grid, or a position that is inside the grid only for  *)
(* the Subspace Expansion level of the snapshot.                            *)
(***************************************************************************)
MaxEntries == 2

SavedEntry(name, x, y, heat, durability) ==
    [name |-> name, heat |-> heat, durability |-> durability, depleted |-> FALSE,
     x |-> x, y |-> y, z |-> 0]

ImportEntries ==
    {SavedEntry("Bogus1", 0, 0, 0, 0),
     SavedEntry("Vent1", 0, 0, 3 * FP, 0),
     SavedEntry("Vent1", BaseWidth, 0, 0, 0),
     SavedEntry("Fuel1-1", 0, 0 - 1, 0, 1)}

ImportLists ==
    UNION {[1..n -> ImportEntries] : n \in 0..MaxEntries}

NextImport ==
    \/ Place(0, 0, "Vent1")
    \/ Remove(0, 0)
    \/ TogglePause
    \/ \E cs \in ImportLists, level \in {0, 1} : ImportEdited(cs, 2 * FP, level)

SpecImport == InitPrestige /\ [][NextImport]_vars

(***************************************************************************)
(* Draining: a reflector beside a fuel cell of one or of two pulses.        *)
(***************************************************************************)
DrainFuels == {"Fuel1-1", "Fuel1-2"}

NextDrain ==
    \/ Place(0, 0, "Reflector1")
    \/ \E name \in DrainFuels : Place(1, 0, name)
    \/ Remove(1, 0)
    \/ Tick

SpecDrain == InitTick /\ [][NextDrain]_vars

(***************************************************************************)
(* The end of a tick: fuel cells in a game resumed with the stored power    *)
(* one unit below its capacity.                                             *)
(***************************************************************************)
InitClamp ==
    InitGame([InitStore(BigZero) EXCEPT !.power = 99 * FP],
             [InitSim EXCEPT !.stored_power = 99 * FP])

NextClamp ==
    \/ \E c \in TickCells : Place(c[1], c[2], "Fuel1-1")
    \/ Remove(0, 0)
    \/ Tick

SpecClamp == InitClamp /\ [][NextClamp]_vars

(***************************************************************************)
(* Reset: a plating, the upgrade that raises the hull's heat capacity per   *)
(* plating tier, ticks and the reset button, in a game resumed with money.  *)
(***************************************************************************)
PlatingCapacityIndex == 8

NextReset ==
    \/ Place(0, 0, "Plate1")
    \/ Remove(0, 0)
    \/ Purchase(PlatingCapacityIndex)
    \/ \E v \in GridViews : Navigate(v)
    \/ Tick
    \/ ResetGame

SpecReset == InitPrestige /\ [][NextReset]_vars

(***************************************************************************)
(* Pulse distribution: games that start with a solid square block of one    *)
(* kind of fuel cell, with one component, or with two components that share *)
(* a row without being neighbours; a fuel cell placed later beside the one  *)
(* component depletes later than it.                                        *)
(***************************************************************************)
BlockSide == 3

PulseNames == {"Fuel7-1", "Fuel1-2", "Fuel11-1", "Vent1"}
LaterNames == {"Fuel7-1", "Fuel1-2"}

\* the placements of a solid block of side n, row by row
BlockLayout(n, name) ==
    [k \in 1..(n * n) |-> <<(k - 1) % n, (k - 1) \div n, name>>]

PulseLayouts ==
    {BlockLayout(n, name) : n \in 1..BlockSide, name \in {"Fuel7-1", "Fuel11-1"}}
    \cup {<<>>}
    \cup {<<<<1, 0, name>>>> : name \in PulseNames}
    \cup {<<<<0, 0, a>>, <<2, 0, b>>>> : a \in PulseNames, b \in PulseNames}

\* a new game in which the listed components were placed one after the other
RECURSIVE Built(_, _)
Built(w, layout) ==
    IF layout = <<>> THEN w
    ELSE Built(place_component(w, Head(layout)[1], Head(layout)[2], Head(layout)[3]).w,
               Tail(layout))

NewWorld ==
    [store |-> InitStore(BigZero), upgrades |-> Catalogs[1], heap |-> <<>>,
     components |-> <<>>, cells |-> <<>>, width |-> BaseWidth, height |-> BaseHeight,
     sim |-> InitSim]

InitPulses ==
    \E layout \in PulseLayouts :
       \E w \in {Built(NewWorld, layout)} :
          /\ store = w.store
          /\ upgrade_data = 1
          /\ levels = [i \in DOMAIN UpgradeCatalog |-> 0]
          /\ heap = w.heap
          /\ components = w.components
          /\ cells = w.cells
          /\ width = w.width
          /\ height = w.height
          /\ sim = w.sim
          /\ pc = "idle"
          /\ tk = InitTk
          /\ ret = NoCall

NextPulses ==
    \/ \E name \in LaterNames : Place(1, 1, name)
    \/ Tick

SpecPulses == InitPulses /\ [][NextPulses]_vars

(***************************************************************************)
(* Generated heat: games that start with one fuel cell, or with a pair of   *)
(* neighbouring cells and a third cell of the same kind apart from them     *)
(* (pulse counts 2, 2 and 1); a vent placed later beside the lone cell      *)
(* absorbs its heat.                                                        *)
(***************************************************************************)
HeatNames == {"Fuel7-1", "Fuel1-2", "Fuel9-1"}

HeatLayouts ==
    {<<<<0, 0, name>>>> : name \in HeatNames}
    \cup {<<<<0, 0, name>>, <<1, 0, name>>, <<3, 0, name>>>> : name \in HeatNames}

InitHeat ==
    \E layout \in HeatLayouts :
       \E w \in {Built(NewWorld, layout)} :
          /\ store = w.store
          /\ upgrade_data = 1
          /\ levels = [i \in DOMAIN UpgradeCatalog |-> 0]
          /\ heap = w.heap
          /\ components = w.components
          /\ cells = w.cells
          /\ width = w.width
          /\ height = w.height
          /\ sim = w.sim
          /\ pc = "idle"
          /\ tk = InitTk
          /\ ret = NoCall

NextHeat ==
    \/ \E name \in {"Vent1", "Fuel9-1"} : Place(0, 1, name)
    \/ Tick

SpecHeat == InitHeat /\ [][NextHeat]_vars

(***************************************************************************)
(* The prestige award: games resumed with lifetime power and heat below,    *)
(* at and above 1e12, and with exotic particles awarded before.             *)
(***************************************************************************)
EpTotals ==
    {BigZero, Big(99999, 999999999), Big(100000, 0), Big(100000, 1),
     Big(316227, 766016838), Big(1000000, 0)}
EpBanked == {0, 1 * FP, 5 * FP}

InitEp ==
    \E power \in EpTotals, heat \in EpTotals, ep \in EpBanked :
        InitGame([InitStore(BigZero) EXCEPT
                     !.total_power_produced = power, !.total_heat_dissipated = heat,
                     !.exotic_particles = ep, !.total_exotic_particles = ep],
                 InitSim)

NextEp ==
    \/ CalculateEp
    \/ CallDoPrestige

SpecEp == InitEp /\ [][NextEp]_vars

(***************************************************************************)
(* Coordinate queries: centres inside the grid, on its edges and outside it *)
(* in every direction, on a grid that Subspace Expansion enlarges.          *)
(***************************************************************************)
QueryXs == {0 - 1, 0, BaseWidth, BaseWidth + 1}
QueryYs == {0 - 1, 0, BaseHeight, BaseHeight + 1}
QueryZs == {0 - 1, 0, Layers}
QueryRadii == {1, 2}

NextQuery ==
    \/ \E c \in GridCells : Place(c[1], c[2], "Vent1")
    \/ Purchase(SubspaceIndex)
    \/ \E view \in GridViews : Navigate(view)
    \/ PrestigeAsk
    \/ DoPrestige
    \/ \E x \in QueryXs, y \in QueryYs, z \in QueryZs, radius \in QueryRadii :
          Query(x, y, z, radius)

SpecQuery == InitGrid /\ [][NextQuery]_vars

(***************************************************************************)
(* Resizing: a grid that grows and shrinks by a column and by a row, with   *)
(* components in its first cell, in the added column and in the added row.  *)
(***************************************************************************)
ResizeWidths == {BaseWidth, BaseWidth + 1}
ResizeHeights == {BaseHeight, BaseHeight + 1}
ResizeCells == {<<0, 0>>, <<BaseWidth, 0>>, <<0, BaseHeight>>}

NextResize ==
    \/ \E c \in ResizeCells : Place(c[1], c[2], "Vent1")
    \/ \E c \in ResizeCells : Remove(c[1], c[2])
    \/ \E new_width \in ResizeWidths, new_height \in ResizeHeights :
          CallResize(new_width, new_height)

SpecResize == InitTick /\ [][NextResize]_vars

(***************************************************************************)
(* Explosions: saved games imported with a hull at, above and at twice its  *)
(* capacity: a vent about to overheat beside a fuel cell, a vent away from   *)
(* two fuel cells, and (with the catalog built without component_types.json) *)
(* a fuel cell on its last tick of durability beside a fresh one.            *)
(***************************************************************************)
ExplodeSaves ==
    {<<SavedEntry("Vent1", 0, 0, 79 * FP, 0), SavedEntry("Fuel7-1", 1, 0, 0, 2)>>,
     <<SavedEntry("Vent1", 0, 0, 70 * FP, 0), SavedEntry("Fuel7-1", 2, 0, 0, 2),
       SavedEntry("Vent1", 4, 0, 0, 0)>>,
     <<SavedEntry(FallbackFuel, 0, 0, 48 * FP, 1),
       SavedEntry(FallbackFuel, 1, 0, 4 * FP, 99)>>}
ExplodeHeats == {0, 1400 * FP, 2000 * FP}

NextExplode ==
    \/ \E cs \in ExplodeSaves, h \in ExplodeHeats : ImportEdited(cs, h, 0)
    \/ Place(1, 1, "Vent1")
    \/ Tick

SpecExplode == InitTick /\ [][NextExplode]_vars

(***************************************************************************)
(* Replacement: a fuel cell of two ticks, and an imported pair of heated     *)
(* cells of which one is on its last tick, in games that own the Perpetual  *)
(* upgrade of their type and the upgrade that doubles their durability or   *)
(* not, and the Replace button.                                              *)
(***************************************************************************)
PerpetualIndex == 1
FuelDurabilityIndex == 3
ReplaceSave ==
    <<SavedEntry(FallbackFuel, 0, 0, 48 * FP, 1), SavedEntry(FallbackFuel, 1, 0, 4 * FP, 99)>>

\* a game resumed with none, one or both of the two upgrades, each with the upgrade it
\* requires, and the grid Subspace Expansion gives
InitReplace ==
    \E perpetual \in {0, 1}, durable \in {0, 1} :
       \E w \in {resize_grid_for_subspace(
                    [NewWorld EXCEPT !.upgrades[0].level = perpetual,
                                     !.upgrades[PerpetualIndex].level = perpetual,
                                     !.upgrades[SubspaceIndex].level = durable,
                                     !.upgrades[FuelDurabilityIndex].level = durable])} :
          /\ store = w.store
          /\ upgrade_data = 1
          /\ levels = [i \in DOMAIN UpgradeCatalog |-> w.upgrades[i].level]
          /\ heap = w.heap
          /\ components = w.components
          /\ cells = w.cells
          /\ width = w.width
          /\ height = w.height
          /\ sim = recompute_max_capacities(w).sim
          /\ pc = "idle"
          /\ tk = InitTk
          /\ ret = NoCall

NextReplace ==
    \/ Place(0, 1, "Fuel1-1")
    \/ ImportEdited(ReplaceSave, 0, levels[SubspaceIndex])
    \/ ToggleReplace
    \/ Tick

SpecReplace == InitReplace /\ [][NextReplace]_vars

(***************************************************************************)
(* Depleted cells: a vent or a hot two-tick fuel cell in the last column of *)
(* the enlarged grid, through prestige, refund and Subspace Expansion.      *)
(***************************************************************************)
StaleNames == {"Vent1", "Fuel2-1"}

NextStale ==
    \/ \E name \in StaleNames : Place(BaseWidth + 1, 0, name)
    \/ Purchase(SubspaceIndex)
    \/ \E view \in GridViews : Navigate(view)
    \/ PrestigeAsk
    \/ DoPrestige
    \/ Refund
    \/ Tick

SpecStale == InitGrid /\ [][NextStale]_vars

(***************************************************************************)
(* Heat of generation: a fuel cell with no, one, two and three absorbing    *)
(* neighbours, an absorber between two cells, and neighbours without heat   *)
(* capacity.                                                                *)
(***************************************************************************)
AbsorbLayouts ==
    {<<<<1, 1, "Fuel7-1">>>>,
     <<<<1, 1, "Fuel7-1">>, <<0, 1, "Vent1">>>>,
     <<<<1, 1, "Fuel7-1">>, <<0, 1, "Reflector1">>>>,
     <<<<1, 1, "Fuel7-1">>, <<0, 1, "Vent1">>, <<2, 1, "Coolant6">>>>,
     <<<<1, 1, "Fuel7-1">>, <<0, 1, "Vent1">>, <<2, 1, "Vent1">>, <<1, 0, "Coolant1">>>>,
     <<<<1, 1, "Fuel7-1">>, <<2, 1, "Vent1">>, <<3, 1, "Fuel1-1">>>>,
     <<<<1, 1, FallbackFuel>>, <<2, 1, FallbackFuel>>>>}

InitAbsorb ==
    \E layout \in AbsorbLayouts :
       \E w \in {Built(NewWorld, layout)} :
          /\ store = w.store
          /\ upgrade_data = 1
          /\ levels = [i \in DOMAIN UpgradeCatalog |-> 0]
          /\ heap = w.heap
          /\ components = w.components
          /\ cells = w.cells
          /\ width = w.width
          /\ height = w.height
          /\ sim = w.sim
          /\ pc = "idle"
          /\ tk = InitTk
          /\ ret = NoCall

NextAbsorb ==
    \/ \E name \in {"Vent1", "Plate1"} : Place(1, 2, name)
    \/ Remove(0, 1)
    \/ Tick

SpecAbsorb == InitAbsorb /\ [][NextAbsorb]_vars

(***************************************************************************)
(* Heat exchange: an exchanger beside vents, coolant, an Extreme Coolant,   *)
(* fuel cells with heat capacity (one of them on its last tick) and another *)
(* exchanger, with heat from fuel cells and from imported games.            *)
(***************************************************************************)
ExchangeLayouts ==
    {<<>>,
     <<<<0, 0, "Fuel1-1">>, <<1, 0, "Exchanger1">>, <<1, 1, "Vent1">>, <<1, 2, "Fuel1-1">>>>,
     <<<<0, 0, "Fuel7-1">>, <<1, 0, "Exchanger1">>, <<2, 0, "Vent1">>, <<1, 1, "Coolant1">>>>}

ExchangeSaves ==
    {<<SavedEntry("Exchanger1", 1, 1, 0, 0), SavedEntry("Vent1", 0, 1, 60 * FP, 0)>>,
     <<SavedEntry("Exchanger1", 1, 1, 70 * FP, 0), SavedEntry("Vent1", 0, 1, 60 * FP, 0),
       SavedEntry("Coolant1", 2, 1, 0, 0)>>,
     <<SavedEntry("Exchanger1", 1, 1, 40 * FP, 0), SavedEntry("Coolant6", 0, 1, 30 * FP, 0),
       SavedEntry(FallbackFuel, 1, 0, 20 * FP, 1), SavedEntry(FallbackFuel, 1, 2, 4 * FP, 99)>>,
     <<SavedEntry("Exchanger1", 1, 1, 60 * FP, 0), SavedEntry("Exchanger1", 2, 1, 0, 0)>>,
     <<SavedEntry("Exchanger1", 0, 0, 30 * FP, 0), SavedEntry("Vent1", 3, 3, 10 * FP, 0)>>}

InitExchange ==
    \E layout \in ExchangeLayouts :
       \E w \in {Built(NewWorld, layout)} :
          /\ store = w.store
          /\ upgrade_data = 1
          /\ levels = [i \in DOMAIN UpgradeCatalog |-> 0]
          /\ heap = w.heap
          /\ components = w.components
          /\ cells = w.cells
          /\ width = w.width
          /\ height = w.height
          /\ sim = w.sim
          /\ pc = "idle"
          /\ tk = InitTk
          /\ ret = NoCall

NextExchange ==
    \/ \E cs \in ExchangeSaves : ImportEdited(cs, 0, 0)
    \/ Tick

SpecExchange == InitExchange /\ [][NextExchange]_vars

(***************************************************************************)
(* Thermally isolated components: an Extreme Coolant and a reflector with   *)
(* heat, beside an exchanger, an inlet, an outlet, a vent, a fuel cell and  *)
(* another Extreme Coolant, in imported games with a cold and a hot hull.   *)
(***************************************************************************)
IsolatedSaves ==
    {<<SavedEntry("Coolant6", 1, 1, 30 * FP, 0), SavedEntry("Exchanger1", 0, 1, 0, 0),
       SavedEntry("Inlet1", 2, 1, 0, 0), SavedEntry("Coolant6", 1, 2, 50 * FP, 0)>>,
     <<SavedEntry("Coolant6", 1, 1, 85 * FP, 0), SavedEntry("Vent1", 1, 0, 70 * FP, 0),
       SavedEntry("Fuel7-1", 0, 1, 0, 2)>>,
     <<SavedEntry("Reflector1", 1, 1, 5 * FP, 3), SavedEntry("Fuel1-1", 0, 1, 0, 2),
       SavedEntry("Inlet1", 2, 1, 0, 0), SavedEntry("Exchanger1", 1, 0, 20 * FP, 0)>>,
     <<SavedEntry("Outlet1", 0, 0, 0, 0), SavedEntry("Coolant6", 1, 0, 10 * FP, 0),
       SavedEntry("Inlet1", 2, 0, 0, 0)>>}
IsolatedHeats == {0, 50 * FP}

\* a game begun by importing one of the saves
InitIsolated ==
    \E cs \in IsolatedSaves, h \in IsolatedHeats :
       \E w \in {_restore_from_dict(NewWorld,
                      [_build_save_dict(NewWorld) EXCEPT
                          !.components = cs, !.reactor_heat = h, !.store.heat = h]).w} :
          /\ store = w.store
          /\ upgrade_data = 1
          /\ levels = [i \in DOMAIN UpgradeCatalog |-> 0]
          /\ heap = w.heap
          /\ components = w.components
          /\ cells = w.cells
          /\ width = w.width
          /\ height = w.height
          /\ sim = w.sim
          /\ pc = "idle"
          /\ tk = InitTk
          /\ ret = NoCall

NextIsolated ==
    \/ Remove(1, 1)
    \/ Tick

SpecIsolated == InitIsolated /\ [][NextIsolated]_vars

(***************************************************************************)
(* The hull exchange: outlets and inlets beside vents, coolant and an       *)
(* Extreme Coolant, a vent between an outlet and an inlet, and two outlets, *)
(* in imported games with an empty, a warm and a hot hull.                  *)
(***************************************************************************)
HullSaves ==
    {<<SavedEntry("Outlet1", 1, 1, 0, 0), SavedEntry("Vent1", 0, 1, 10 * FP, 0),
       SavedEntry("Coolant1", 2, 1, 0, 0)>>,
     <<SavedEntry("Inlet1", 1, 1, 0, 0), SavedEntry("Vent1", 0, 1, 10 * FP, 0),
       SavedEntry("Coolant1", 2, 1, 40 * FP, 0), SavedEntry("Coolant6", 1, 0, 30 * FP, 0)>>,
     <<SavedEntry("Outlet1", 0, 0, 0, 0), SavedEntry("Vent1", 1, 0, 5 * FP, 0),
       SavedEntry("Inlet1", 2, 0, 0, 0)>>,
     <<SavedEntry("Outlet1", 0, 0, 0, 0), SavedEntry("Coolant1", 1, 0, 0, 0),
       SavedEntry("Outlet1", 2, 0, 0, 0), SavedEntry("Coolant1", 3, 0, 20 * FP, 0)>>}
HullHeats == {0, 10 * FP, 50 * FP}

\* a game begun by importing one of the saves
InitHull ==
    \E cs \in HullSaves, h \in HullHeats :
       \E w \in {_restore_from_dict(NewWorld,
                      [_build_save_dict(NewWorld) EXCEPT
                          !.components = cs, !.reactor_heat = h, !.store.heat = h]).w} :
          /\ store = w.store
          /\ upgrade_data = 1
          /\ levels = [i \in DOMAIN UpgradeCatalog |-> 0]
          /\ heap = w.heap
          /\ components = w.components
          /\ cells = w.cells
          /\ width = w.width
          /\ height = w.height
          /\ sim = w.sim
          /\ pc = "idle"
          /\ tk = InitTk
          /\ ret = NoCall

NextHull ==
    \/ Remove(1, 0)
    \/ Tick

SpecHull == InitHull /\ [][NextHull]_vars

(***************************************************************************)
(* Money, power and hull heat: coolant bought and replaced by clicks beside *)
(* a heat outlet, the auto-sell upgrade bought, power sold, heat vented,    *)
(* ticks, prestige and reset, in a game resumed with 2 of money.            *)
(***************************************************************************)
MoneyNames == {"Coolant1", "Coolant6"}

\* a game resumed with a heat outlet in the cell (1, 0)
InitMoney ==
    \E w \in {place_component(
                  [NewWorld EXCEPT
                      !.store = [InitStore(Big(1000000, 0)) EXCEPT
                                    !.money = 2 * FP, !.total_money = 2 * FP,
                                    !.money_earned_this_game = 2 * FP, !.power = 3 * FP,
                                    !.power_produced_this_game = 3 * FP, !.heat = 2 * FP],
                      !.sim = [InitSim EXCEPT !.reactor_heat = 2 * FP,
                                              !.stored_power = 3 * FP]],
                  1, 0, "Outlet1").w} :
       /\ store = w.store
       /\ upgrade_data = 1
       /\ levels = [i \in DOMAIN UpgradeCatalog |-> 0]
       /\ heap = w.heap
       /\ components = w.components
       /\ cells = w.cells
       /\ width = w.width
       /\ height = w.height
       /\ sim = w.sim
       /\ pc = "idle"
       /\ tk = InitTk
       /\ ret = NoCall

NextMoney ==
    \/ \E name \in MoneyNames : ClickCell(0, 0, name)
    \/ Purchase(AutoSellIndex)
    \/ \E view \in GridViews : Navigate(view)
    \/ SellOrScrounge
    \/ VentHeat
    \/ (sim.view_mode = "options" /\ CallDoPrestige)
    \/ ResetGame
    \/ Tick

SpecMoney == InitMoney /\ [][NextMoney]_vars

(***************************************************************************)
(* Every operation together                                                 *)
(***************************************************************************)
\* The whole machine.  The specifications of this module restrict it to the
\* operations and the inputs a group of properties is about.
Next ==
    \/ \E c \in PlaceCells, name \in PlaceNames : Place(c[1], c[2], name)
    \/ \E c \in PlaceCells : Remove(c[1], c[2])
    \/ \E idx \in PurchaseIndices : Purchase(idx)
    \/ \E view \in Views : Navigate(view)
    \/ PrestigeAsk
    \/ DoPrestige
    \/ Refund
    \/ ResetGame
    \/ SellOrScrounge
    \/ VentHeat
    \/ Tick
    \/ \E dt \in FrameTimes : Frame(dt)
    \/ StepLoop
    \/ TogglePause
    \/ \E c \in PlaceCells : SellValue(c[1], c[2])
    \/ \E x \in QueryXs, y \in QueryYs, z \in QueryZs, radius \in QueryRadii :
          Query(x, y, z, radius)
    \/ \E new_width \in ResizeWidths, new_height \in ResizeHeights :
          CallResize(new_width, new_height)
    \/ ToggleReplace
    \/ \E c \in PlaceCells, name \in PlaceNames : ClickCell(c[1], c[2], name)
    \/ CalculateEp
    \/ SaveAndRestore
    \/ \E cs \in ImportLists, level \in {0, 1} : ImportEdited(cs, 2 * FP, level)
    \/ \E ct \in BonusTypes, sc \in BonusStats : GetBonus(ct, sc)

Spec == Init /\ [][Next]_vars

(***************************************************************************)
(* Properties                                                               *)
(***************************************************************************)
\* C1: in every reachable state each grid cell holds at most one component, and a
\* component occupies cell (x,y,z) if and only if exactly one entry of the component
\* list records position (x,y,z); so every listed component lies inside the grid.
C1_GridMatchesList ==
    /\ \A k \in 1..Len(components) :
          /\ in_bounds(World, heap[components[k]].grid_x, heap[components[k]].grid_y,
                       heap[components[k]].grid_z)
          /\ <<heap[components[k]].grid_x, heap[components[k]].grid_y,
               heap[components[k]].grid_z>> \in DOMAIN cells
    /\ \A x \in 0..(width - 1), y \in 0..(height - 1) :
          (<<x, y, 0>> \in DOMAIN cells) <=>
             Cardinality({k \in 1..Len(components) :
                 <<heap[components[k]].grid_x, heap[components[k]].grid_y,
                   heap[components[k]].grid_z>> = <<x, y, 0>>}) = 1

\* C2: when every upgrade is at level 0, get_upgrade_stat_bonus returns exactly 1.0
\* for every (component type, stat category) pair, whatever bonuses the upgrade
\* definitions carry.
C2_IdentityBonus ==
    (ret.op = "get_upgrade_stat_bonus" /\ \A i \in DOMAIN levels : levels[i] = 0)
        => ret.val = 1

\* C2's case: with every level 0, the bonus has been asked for a pair on which the
\* file's bonuses subtract and multiply by zero
C2_Witness ==
    /\ ret.op = "get_upgrade_stat_bonus" /\ ret.args = <<1, MANUAL_VENT>>
    /\ upgrade_data = 2
    /\ \A i \in DOMAIN levels : levels[i] = 0

\* the reasons for which a purchase of upgrade idx with the current money and exotic
\* particles fails: index out of range, one-time upgrade already owned, prerequisite
\* at level 0, cost not affordable in the upgrade's currency
PurchaseFails(idx) ==
    \/ idx \notin DOMAIN upgrades
    \/ /\ idx \in DOMAIN upgrades
       /\ \/ upgrades[idx].cost_multiplier = 0 /\ levels[idx] > 0
          \/ upgrades[idx].prerequisite >= 0 /\ levels[upgrades[idx].prerequisite] = 0
          \/ upgrades[idx].is_prestige /\ store.exotic_particles < get_cost(upgrades, idx)
          \/ ~upgrades[idx].is_prestige /\ store.money < get_cost(upgrades, idx)

\* C3: a purchase that fails for any reason returns the (money, ep) pair it was given
\* and changes no upgrade level.
C3_FailedPurchase ==
    [][(ret'.op = "purchase" /\ PurchaseFails(ret'.args[1])) =>
          /\ ret'.val = <<store.money, store.exotic_particles>>
          /\ levels' = levels]_vars

\* C3's case: a purchase has just been refused only because its prerequisite is at
\* level 0
C3_Witness ==
    /\ ret.op = "purchase" /\ ret.args[1] = 1
    /\ levels[0] = 0 /\ levels[1] = 0
    /\ store.money >= get_cost(upgrades, 1)
    /\ ret.val = <<store.money, store.exotic_particles>>

\* C4: a successful purchase raises exactly the purchased upgrade's level by 1,
\* deducts exactly get_cost from exotic particles if the upgrade is a prestige upgrade
\* and from money otherwise, leaves the other currency and every other level unchanged,
\* and leaves the charged currency non-negative.
C4_SuccessfulPurchase ==
    [][(ret'.op = "purchase" /\ ~PurchaseFails(ret'.args[1])) =>
          /\ levels' = [levels EXCEPT ![ret'.args[1]] = @ + 1]
          /\ ret'.val = <<store'.money, store'.exotic_particles>>
          /\ IF upgrades[ret'.args[1]].is_prestige
             THEN /\ store'.exotic_particles
                        = store.exotic_particles - get_cost(upgrades, ret'.args[1])
                  /\ store'.exotic_particles >= 0
                  /\ store'.money = store.money
             ELSE /\ store'.money = store.money - get_cost(upgrades, ret'.args[1])
                  /\ store'.money >= 0
                  /\ store'.exotic_particles = store.exotic_particles]_vars

\* C4's case: a prestige upgrade has just been bought at a discounted, level-scaled
\* cost while money was held
C4_Witness ==
    /\ ret.op = "purchase" /\ ret.args[1] = SubspaceIndex
    /\ levels[SubspaceIndex] = 2 /\ levels[4] = 1
    /\ store.money > 0
    /\ ret.val = <<store.money, store.exotic_particles>>
    /\ store.exotic_particles < ret.args[3]

\* C5: across purchase, do_prestige, refund_prestige_upgrades and reset_game from all
\* levels 0, every level stays >= 0 and every one-time upgrade has level 0 or 1.
C5_LevelsInRange ==
    \A i \in DOMAIN upgrades :
        /\ levels[i] >= 0
        /\ upgrades[i].cost_multiplier = 0 => levels[i] \in {0, 1}

\* C5's case: an owned one-time upgrade has just been clicked again with its cost in
\* hand
C5_Witness ==
    /\ ret.op = "purchase" /\ ret.args[1] = 3
    /\ upgrades[3].cost_multiplier = 0 /\ levels[3] = 1
    /\ ret.args[3] >= get_cost(upgrades, 3)
    /\ store.exotic_particles = ret.args[3]

\* the cell a place or remove call names, and whether the grid held something there
CallCell == <<ret'.args[1], ret'.args[2], 0>>
CallInBounds == in_bounds(World, ret'.args[1], ret'.args[2], 0)
CallOccupied == CallInBounds /\ CallCell \in DOMAIN cells

\* C6: place_component on a cell that is out of bounds or already occupied returns
\* False and leaves the grid, the component list, the pulse-dirty flag and the reactor
\* capacities exactly as they were.
C6_FailedPlace ==
    [][(ret'.op = "place" /\ (~CallInBounds \/ CallOccupied)) =>
          /\ ret'.val = FALSE
          /\ UNCHANGED <<cells, width, height, components, heap>>
          /\ sim'.pulses_dirty = sim.pulses_dirty
          /\ sim'.max_reactor_heat = sim.max_reactor_heat
          /\ sim'.max_reactor_power = sim.max_reactor_power]_vars

\* C6's case: a placement onto an occupied cell has just been refused while the
\* pulse-dirty flag was clear
C6_Witness ==
    /\ ret.op = "place" /\ ret.val = FALSE
    /\ <<ret.args[1], ret.args[2], 0>> \in DOMAIN cells
    /\ ~sim.pulses_dirty

\* C7: remove_component on an out-of-bounds or empty cell returns None and changes
\* nothing; on an occupied cell it returns the component stored there, after which
\* the cell is empty and the component is no longer in the list, while every other
\* cell and every other list entry is unchanged.
C7_Remove ==
    [][ret'.op = "remove" =>
          IF ~CallOccupied
          THEN /\ ret'.val = None
               /\ UNCHANGED <<store, levels, heap, components, cells, width, height, sim>>
          ELSE /\ ret'.val = cells[CallCell]
               /\ CallCell \notin DOMAIN cells'
               /\ \A k \in 1..Len(components') : components'[k] # ret'.val
               /\ components' = SelectSeq(components, LAMBDA id : id # ret'.val)
               /\ cells' = [p \in (DOMAIN cells) \ {CallCell} |-> cells[p]]
               /\ \A id \in DOMAIN heap' : heap'[id] = heap[id]]_vars

\* C8: if reactor_heat >= 2 x max_reactor_heat (with max_reactor_heat > 0) when a tick
\* starts, then after that single tick the grid has no occupied cell and the component
\* list is empty, whatever components were placed.
C8_Meltdown ==
    (/\ pc = "idle" /\ ret.op = "tick"
     /\ tk.start_max_heat > 0
     /\ tk.start_heat >= 2 * tk.start_max_heat)
        => (components = <<>> /\ cells = <<>>)

\* the pulse counts DistributePulses would compute now are the ones the components hold
PulsesCurrent ==
    \A k \in 1..Len(components) :
        heap[components[k]].pulse_count = DistributedHeap(World)[components[k]].pulse_count

\* C9: whenever GeneratePowerAndHeat runs in a tick, every placed component's
\* pulse_count equals the value DistributePulses would compute from the grid contents
\* and depleted flags as they are at that moment.
C9_PulsesFresh == pc = "generate" => PulsesCurrent

\* the stages in the order _do_tick runs them, with and without DistributePulses
AllStages ==
    <<"prepare", "distribute", "drain", "generate", "heat_exchange", "coolant", "hull",
      "vent", "explode", "autovent", "autosell", "clamp">>
StagesWhenClean == SelectSeq(AllStages, LAMBDA stage : stage # "distribute")

C11_StepAccumulator ==
    (pc = "idle" /\ ret.op = "step") =>
        /\ tk.step.ticks = tk.step.due
        /\ 0 <= sim.tick_accumulator
        /\ sim.tick_accumulator * sim.ticks_per_second < TimeScale

\* the frame loop is not running ticks in this state
Suppressed == sim.paused \/ sim.view_mode # "reactor"

\* C12: while the simulation is paused or a non-reactor view is open no tick runs, a
\* frame in that condition leaves the tick accumulator at zero, and the first step(dt)
\* after such frames runs at most floor(dt / interval) ticks.
C12_NoCatchUp ==
    [][/\ (Suppressed /\ pc = "idle") =>
             (pc' = "idle" /\ sim'.total_ticks = sim.total_ticks)
       /\ tk'.step.suppressed => sim'.tick_accumulator = 0
       /\ (pc' = "idle" /\ ret'.op = "step" /\ tk'.step.after_suppressed) =>
             tk'.step.ticks <= tk'.step.dt \div tk'.step.tick_interval]_vars

\* C12's case: the first step after suppressed frames has returned, having run a tick
\* at two ticks per second on a frame of one second
C12_Witness ==
    /\ pc = "idle" /\ ret.op = "step" /\ tk.step.after_suppressed
    /\ tk.step.ticks = 2 /\ tk.step.dt = TimeScale

\* C13: after place_component, remove_component, an upgrade purchase, do_prestige,
\* refund_prestige_upgrades, reset_game and after each tick, max_reactor_heat and
\* max_reactor_power equal the capacity formula evaluated on the current component
\* list, upgrade levels and cap multipliers.
C13_CapacitiesCurrent ==
    (pc = "idle" /\ ret.op \in {"place", "remove", "purchase", "do_prestige", "refund",
                                 "reset_game", "tick"}) =>
        /\ sim.max_reactor_heat = MaxHeatFormula(World)
        /\ sim.max_reactor_power = MaxPowerFormula(World)

\* the indices of the prestige upgrades and of the others
PrestigeUpgrades == {i \in DOMAIN upgrades : upgrades[i].is_prestige}
OrdinaryUpgrades == {i \in DOMAIN upgrades : ~upgrades[i].is_prestige}

\* C14: do_prestige empties the grid and the component list, zeroes money, stored
\* power, reactor heat and the three per-run counters, sets every non-prestige upgrade
\* level to 0, leaves every prestige upgrade level and the lifetime totals total_money,
\* total_power_produced and total_heat_dissipated unchanged, and ends with
\* prestige_confirming false and prestige_can_refund true.
C14_PrestigeFrame ==
    [][ret'.op = "do_prestige" =>
          /\ cells' = <<>> /\ components' = <<>>
          /\ store'.money = 0 /\ sim'.stored_power = 0 /\ sim'.reactor_heat = 0
          /\ store'.money_earned_this_game = 0
          /\ store'.power_produced_this_game = 0
          /\ store'.heat_dissipated_this_game = 0
          /\ \A i \in OrdinaryUpgrades : levels'[i] = 0
          /\ \A i \in PrestigeUpgrades : levels'[i] = levels[i]
          /\ store'.total_money = store.total_money
          /\ store'.total_power_produced = store.total_power_produced
          /\ store'.total_heat_dissipated = store.total_heat_dissipated
          /\ ~sim'.prestige_confirming /\ sim'.prestige_can_refund]_vars

\* C14's case: do_prestige has run with a prestige upgrade owned and lifetime money
\* earned, in a game whose money bought an upgrade and whose grid held a plating (the
\* capacity it was left with is the bare one times the prestige upgrade's factor)
C14_Witness ==
    /\ ret.op = "do_prestige"
    /\ levels[6] = 1 /\ store.total_money = 3 * FP
    /\ sim.max_reactor_heat = 4000 * FP

\* C15: do_prestige adds the same amount ep_gain = calculate_prestige_ep() to both
\* exotic_particles and total_exotic_particles and returns it; as long as no tick
\* runs, calculate_prestige_ep is 0 afterwards, so a second do_prestige awards nothing.
C15_AwardedOnce ==
    [][/\ ret'.op = "do_prestige" =>
             /\ ret'.val = calculate_prestige_ep(World)
             /\ store'.exotic_particles = store.exotic_particles + ret'.val * FP
             /\ store'.total_exotic_particles = store.total_exotic_particles + ret'.val * FP
             /\ calculate_prestige_ep(World') = 0
       /\ (pc = "idle" /\ pc' = "idle" /\ calculate_prestige_ep(World) = 0) =>
             calculate_prestige_ep(World') = 0]_vars

\* C15's case: a second do_prestige has awarded nothing after the first awarded 4
C15_Witness ==
    /\ ret.op = "do_prestige" /\ ret.val = 0
    /\ store.total_exotic_particles = 4 * FP

\* C16: the prestige button goes Normal -> Confirming -> RefundWindow -> Normal:
\* do_prestige runs only from a click made in Confirming, prestige_confirming and
\* prestige_can_refund are never both true, a refund happens only in RefundWindow and
\* ends it (the window opens only by a prestige), and leaving the options view or
\* resetting the game returns to Normal without executing prestige or refund.
C16_PrestigePhases ==
    [][/\ ~(sim'.prestige_confirming /\ sim'.prestige_can_refund)
       /\ ret'.op = "do_prestige" =>
             (sim.view_mode = "options" /\ sim.prestige_confirming
              /\ sim'.prestige_can_refund)
       /\ ret'.op = "refund" =>
             (sim.view_mode = "options" /\ sim.prestige_can_refund
              /\ ~sim'.prestige_can_refund /\ ~sim'.prestige_confirming)
       /\ (sim'.prestige_can_refund /\ ~sim.prestige_can_refund) => ret'.op = "do_prestige"
       /\ (sim'.prestige_confirming /\ ~sim.prestige_confirming) =>
             (ret'.op = "prestige_ask" /\ ~sim.prestige_can_refund)
       /\ (sim.view_mode = "options" /\ sim'.view_mode # "options") =>
             /\ ~sim'.prestige_confirming /\ ~sim'.prestige_can_refund
             /\ ret'.op \in {"navigate", "reset_game"}
             /\ ret'.op = "navigate" => UNCHANGED <<store, levels, components, cells>>
       /\ sim'.view_mode # "options" =>
             (~sim'.prestige_confirming /\ ~sim'.prestige_can_refund)]_vars

\* C16's case: the options view has been left during the refund window of a prestige
\* that awarded exotic particles, with the prestige upgrade still owned
C16_Witness ==
    /\ ret.op = "navigate" /\ sim.view_mode = "upgrades"
    /\ ~sim.prestige_can_refund /\ ~sim.prestige_confirming
    /\ levels[6] = 1 /\ store.exotic_particles = 3 * FP
    /\ store.money = 0 /\ store.total_money = 3 * FP

\* C17: refund_prestige_upgrades sets every prestige upgrade level to 0, sets
\* exotic_particles equal to total_exotic_particles, clears prestige_can_refund, and
\* leaves non-prestige upgrade levels, total_exotic_particles, money, the grid and the
\* component list unchanged.
C17_RefundFrame ==
    [][ret'.op = "refund" =>
          /\ \A i \in PrestigeUpgrades : levels'[i] = 0
          /\ \A i \in OrdinaryUpgrades : levels'[i] = levels[i]
          /\ store'.exotic_particles = store'.total_exotic_particles
          /\ store'.total_exotic_particles = store.total_exotic_particles
          /\ ~sim'.prestige_can_refund
          /\ store'.money = store.money
          /\ UNCHANGED <<heap, components, cells, width, height>>]_vars

\* C17's case: a refund has run with a plating in the grid, an upgrade bought with
\* money, and exotic particles that had been spent
C17_Witness ==
    /\ ret.op = "refund"
    /\ components # <<>> /\ levels[0] = 1 /\ store.money = 2 * FP
    /\ store.exotic_particles = 2 * FP /\ levels[6] = 0

\* C18: total_money, total_power_produced, total_heat_dissipated and
\* total_exotic_particles never decrease across ticks, place_component,
\* remove_component, vent_heat, sell_or_scrounge, purchase, do_prestige and
\* refund_prestige_upgrades, and the per-run counters money_earned_this_game,
\* power_produced_this_game and heat_dissipated_this_game are 0 right after do_prestige.
C18_TotalsMonotone ==
    [][/\ store'.total_money >= store.total_money
       /\ BigLeq(store.total_power_produced, store'.total_power_produced)
       /\ BigLeq(store.total_heat_dissipated, store'.total_heat_dissipated)
       /\ store'.total_exotic_particles >= store.total_exotic_particles
       /\ ret'.op = "do_prestige" =>
             /\ store'.money_earned_this_game = 0
             /\ store'.power_produced_this_game = 0
             /\ store'.heat_dissipated_this_game = 0]_vars

\* C18's case: a tick has carried lifetime power and heat over 1e12, power was sold,
\* and the prestige that followed awarded one exotic particle
C18_Witness ==
    /\ ret.op = "do_prestige" /\ ret.val = 1
    /\ store.total_exotic_particles = 1 * FP
    /\ store.total_money > 0
    /\ BigLeq(Big(100000, 0), store.total_heat_dissipated)

\* C19: sell_value of a non-fuel component that has taken no heat and lost no
\* durability since it was placed equals its type's cost, whatever upgrades were in
\* force at placement; sell_value of a component whose type has pulses_produced > 0
\* is 0.  (No tick runs in SpecShop, so every component is as it was placed.)
C19_SellValue ==
    ret.op = "sell_value" =>
        LET stats == Stats(heap[cells[<<ret.args[1], ret.args[2], 0>>]].stats)
        IN ret.val = IF stats.pulses_produced > 0 THEN 0 ELSE stats.cost

\* C20: after a snapshot of the game is restored, the components are the ones the
\* snapshot was built from, in the same order, each with the same type, position, heat,
\* durability and depleted flag, and every upgrade has the level it had; this includes
\* depleted fuel cells whose durability has reached 0.
C20_RoundTrip ==
    ret.op = "restore" =>
        /\ _build_save_dict(World).components = ret.val.components
        /\ _build_save_dict(World).upgrade_levels = ret.val.upgrade_levels

\* C21: restoring a snapshot whose component list has entries with an unknown name or
\* a position outside the grid skips exactly those entries: the component list is the
\* other entries in their order, each with its name, position, heat, durability and
\* depleted flag, every cell holds a listed component of its position and every kept
\* entry's cell is occupied; the store, the scalar fields and the upgrade levels are the
\* snapshot's, and the restore reports success.
C21_SkipsBadEntries ==
    ret.op = "import" =>
        LET data == ret.val.data
            Kept(d) == /\ d.name \in ComponentNames
                       /\ 0 <= d.x /\ d.x < width /\ 0 <= d.y /\ d.y < height
                       /\ 0 <= d.z /\ d.z < Layers
            kept == SelectSeq(data.components, Kept)
        IN /\ ret.val.ok
           /\ SavedComponents(World, 1) = kept
           /\ \A p \in DOMAIN cells :
                 /\ \E k \in 1..Len(components) : components[k] = cells[p]
                 /\ <<heap[cells[p]].grid_x, heap[cells[p]].grid_y, heap[cells[p]].grid_z>> = p
           /\ \A k \in 1..Len(kept) : <<kept[k].x, kept[k].y, kept[k].z>> \in DOMAIN cells
           /\ store = data.store
           /\ sim.reactor_heat = data.reactor_heat
           /\ sim.stored_power = data.stored_power
           /\ sim.depleted_protium_count = data.depleted_protium_count
           /\ sim.paused = data.paused
           /\ sim.replace_mode = data.replace_mode
           /\ sim.total_ticks = data.total_ticks
           /\ levels = data.upgrade_levels

\* C21's case: a snapshot with Subspace Expansion at level 1 listed a component of an
\* unknown type and a vent in the column that level adds; only the vent was restored
C21_Witness ==
    /\ ret.op = "import"
    /\ Len(ret.val.data.components) = 2
    /\ \E k \in 1..Len(ret.val.data.components) : ret.val.data.components[k].name = "Bogus1"
    /\ \E k \in 1..Len(ret.val.data.components) : ret.val.data.components[k].x = BaseWidth
    /\ width = BaseWidth + 1
    /\ Len(components) = 1
    /\ heap[components[1]].grid_x = BaseWidth

\* C22: between ticks every placed component has heat >= 0 and durability >= 0,
\* reflectors drained by more than their remaining durability included.
C22_NonNegative ==
    Idle => \A p \in DOMAIN cells :
               heap[cells[p]].heat >= 0 /\ heap[cells[p]].durability >= 0

\* C23: the last stage of every tick leaves stored_power at the lesser of its value and
\* max_reactor_power, leaves reactor_heat as it is (also above max_reactor_heat), and
\* leaves store.power = stored_power and store.heat = reactor_heat.
C23_ClampAndSync ==
    [][pc = "clamp" =>
          /\ sim'.stored_power = Min(sim.stored_power, sim.max_reactor_power)
          /\ sim'.stored_power <= sim'.max_reactor_power
          /\ sim'.reactor_heat = sim.reactor_heat
          /\ store'.power = sim'.stored_power
          /\ store'.heat = sim'.reactor_heat]_vars

\* C23's case: a tick that generated power has ended with the stored power cut to the
\* capacity and the hull heat above its capacity
C23_Witness ==
    /\ pc = "idle" /\ ret.op = "tick"
    /\ tk.power_gen > 0
    /\ sim.stored_power = sim.max_reactor_power
    /\ sim.reactor_heat > sim.max_reactor_heat
    /\ store.heat = sim.reactor_heat

\* C24: after reset_game returns, the grid and the component list are empty, every
\* resource counter (lifetime totals and both exotic-particle fields included) is 0,
\* every upgrade level is 0, reactor_heat and stored_power are 0, both prestige flags
\* are false, the grid has its base size, and max_reactor_heat and max_reactor_power are
\* the base values 1000 and 100.
C24_ResetGame ==
    ret.op = "reset_game" =>
        /\ cells = <<>> /\ components = <<>>
        /\ store = InitStore(BigZero)
        /\ \A i \in DOMAIN levels : levels[i] = 0
        /\ sim.reactor_heat = 0 /\ sim.stored_power = 0
        /\ ~sim.prestige_confirming /\ ~sim.prestige_can_refund
        /\ width = BaseWidth /\ height = BaseHeight
        /\ sim.max_reactor_heat = 1000 * FP
        /\ sim.max_reactor_power = 100 * FP

\* floor(log2(cores)) + 1
CoreScale(cores) == CHOOSE k \in 1..8 : Pow(2, k - 1) <= cores /\ cores < Pow(2, k)

\* the pulses the component at cell p produces for itself
OwnPulses(p) ==
    LET c == heap[cells[p]]
    IN IF ~c.depleted /\ Stats(c.stats).pulses_produced > 0
       THEN CoreScale(Stats(c.stats).number_of_cores) * Stats(c.stats).pulses_produced
       ELSE 0

\* the pulses that reach cell p from the live fuel cells at the cells S: from a
\* cardinal neighbour, or along the row or the column from a Stavrium cell
RECURSIVE PulsesReceived(_, _)
PulsesReceived(p, S) ==
    IF S = {} THEN 0
    ELSE LET q == CHOOSE r \in S : TRUE
             c == heap[cells[q]]
             st == Stats(c.stats)
             reaches == /\ q[3] = p[3]
                        /\ IF st.component_type_id = 20
                           THEN q[1] = p[1] \/ q[2] = p[2]
                           ELSE Abs(q[1] - p[1]) + Abs(q[2] - p[2]) = 1
         IN (IF ~c.depleted /\ st.pulses_produced > 0 /\ reaches
             THEN st.pulses_produced ELSE 0)
            + PulsesReceived(p, S \ {q})

\* the grid is a solid 3x3 block of live Fuel7-1 cells
SolidBlock ==
    /\ DOMAIN cells = {<<x, y, 0>> : x \in 0..2, y \in 0..2}
    /\ \A p \in DOMAIN cells : heap[cells[p]].stats = "Fuel7-1" /\ ~heap[cells[p]].depleted

\* C25: right after DistributePulses every component's pulse_count is scale x pulses of
\* itself (if it is a live fuel cell) plus the pulses of every live fuel cell that is a
\* cardinal neighbour, or that shares its row or column when that cell is Stavrium; a
\* lone single-core one-pulse fuel cell has pulse_count 1 and the centre of a solid 3x3
\* block of such cells has pulse_count 5.
C25_PulseCounts ==
    (pc = "drain" /\ tk.trace = <<"prepare", "distribute">>) =>
        /\ \A p \in DOMAIN cells :
              heap[cells[p]].pulse_count = OwnPulses(p) + PulsesReceived(p, (DOMAIN cells) \ {p})
        /\ \A p \in DOMAIN cells :
              (/\ DOMAIN cells = {p}
               /\ heap[cells[p]].stats = "Fuel7-1" /\ ~heap[cells[p]].depleted)
                 => heap[cells[p]].pulse_count = 1
        /\ SolidBlock => heap[cells[<<1, 1, 0>>]].pulse_count = 5

\* C25's case: DistributePulses has run on a solid 3x3 block of single-core fuel cells
\* and left 5 in the centre and 3 in a corner
C25_Witness ==
    /\ pc = "drain" /\ tk.trace = <<"prepare", "distribute">>
    /\ SolidBlock
    /\ heap[cells[<<1, 1, 0>>]].pulse_count = 5
    /\ heap[cells[<<0, 0, 0>>]].pulse_count = 3

\* the fuel cells GeneratePowerAndHeat has just visited
LiveFuel == {p \in DOMAIN cells : ~heap[cells[p]].depleted
                                  /\ Stats(heap[cells[p]].stats).energy_per_pulse > 0}

\* pulse_count squared x heat_per_pulse x upgrade bonus / cell area for the cell at p
SquareHeat(p) ==
    LET c == heap[cells[p]]
        st == Stats(c.stats)
    IN FloorDiv(c.pulse_count * c.pulse_count * st.heat_per_pulse
                * get_upgrade_stat_bonus(upgrades, st.component_type_id, HEAT_PER_PULSE),
                Max(1, st.cell_width * st.cell_height))

\* C26 as stated: the heat a fuel cell generates in a tick is pulse_count squared x
\* heat_per_pulse / cell area, so of two cells of one kind the one with twice the pulse
\* count generates exactly 4 times the heat.
C26_QuadraticHeat ==
    pc = "heat_exchange" =>
        /\ \A p \in LiveFuel : heap[cells[p]].last_heat = SquareHeat(p)
        /\ \A p, q \in LiveFuel :
              (/\ heap[cells[p]].stats = heap[cells[q]].stats
               /\ heap[cells[q]].pulse_count = 2 * heap[cells[p]].pulse_count)
                 => heap[cells[q]].last_heat = 4 * heap[cells[p]].last_heat

\* C26, amended: the heat a fuel cell other than Kymium generates in a tick is
\* pulse_count squared x heat_per_pulse / cell area, and a Kymium cell generates that
\* amount times (1 + cos(8 pi x durability / max durability)) / 2; of two cells of one
\* kind and, for Kymium, of one durability, the one with twice the pulse count generates
\* exactly 4 times the heat.
C26_QuadraticHeatAmended ==
    pc = "heat_exchange" =>
        /\ \A p \in LiveFuel :
              LET c == heap[cells[p]]
              IN IF Stats(c.stats).component_type_id = 18
                 THEN c.last_heat =
                         FloorDiv(SquareHeat(p)
                                  * (FP + KymiumCos(c.durability, Stats(c.stats).max_durability)),
                                  2 * FP)
                 ELSE c.last_heat = SquareHeat(p)
        /\ \A p, q \in LiveFuel :
              (/\ heap[cells[p]].stats = heap[cells[q]].stats
               /\ heap[cells[p]].durability = heap[cells[q]].durability
               /\ heap[cells[q]].pulse_count = 2 * heap[cells[p]].pulse_count)
                 => heap[cells[q]].last_heat = 4 * heap[cells[p]].last_heat

\* C26's case: a lone cell and one of a neighbouring pair, of one kind, have just
\* generated 10 and 40 units of heat
C26_Witness ==
    /\ pc = "heat_exchange"
    /\ \E p, q \in LiveFuel :
          /\ heap[cells[p]].stats = "Fuel7-1" /\ heap[cells[q]].stats = "Fuel7-1"
          /\ heap[cells[p]].pulse_count = 1 /\ heap[cells[q]].pulse_count = 2
          /\ heap[cells[p]].last_heat = 10 * FP /\ heap[cells[q]].last_heat = 40 * FP

\* C27: calculate_prestige_ep returns 0 whenever min(total_power_produced,
\* total_heat_dissipated) < 1e12, returns 1 when that minimum is exactly 1e12 and no
\* exotic particles have been awarded, and never returns a negative value.
C27_PrestigeBoundary ==
    ret.op = "calculate_prestige_ep" =>
        LET value == IF BigLeq(store.total_power_produced, store.total_heat_dissipated)
                     THEN store.total_power_produced ELSE store.total_heat_dissipated
        IN /\ ret.val >= 0
           /\ (value.hi < 100000) => ret.val = 0
           /\ (value = [hi |-> 100000, lo |-> 0] /\ store.total_exotic_particles = 0)
                 => ret.val = 1

\* C27's case: the award was computed for a game whose lifetime heat is exactly 1e12,
\* whose lifetime power is more, and which has no exotic particles yet
C27_Witness ==
    /\ ret.op = "calculate_prestige_ep" /\ ret.val = 1
    /\ store.total_heat_dissipated = [hi |-> 100000, lo |-> 0]
    /\ store.total_power_produced = [hi |-> 1000000, lo |-> 0]
    /\ store.total_exotic_particles = 0

\* a coordinate of the grid as it stands
OnGrid(p) == p[1] \in 0..(width - 1) /\ p[2] \in 0..(height - 1) /\ p[3] \in 0..(Layers - 1)

C29_Resize ==
    [][ret'.op = "resize" =>
          /\ width' = ret'.args[1] /\ height' = ret'.args[2]
          /\ \A x \in 0..(Max(width, width') - 1), y \in 0..(Max(height, height') - 1),
                z \in 0..(Layers - 1) :
                LET p == <<x, y, z>>
                    old == x < width /\ y < height
                    new == x < width' /\ y < height'
                IN /\ (old /\ new) =>
                          /\ p \in DOMAIN cells' <=> p \in DOMAIN cells
                          /\ p \in DOMAIN cells => cells'[p] = cells[p]
                   /\ (new /\ ~old) => p \notin DOMAIN cells'
          /\ (width' = width /\ height' = height) =>
                UNCHANGED <<store, upgrade_data, levels, heap, components, cells, sim,
                            pc, tk>>]_vars

\* C29's case: the grid was resized from 20x17 to 20x16 or back with a component in its
\* first cell and one in the added column, which are both still in their cells
C29_Witness ==
    /\ ret.op = "resize" /\ width = BaseWidth + 1
    /\ DOMAIN cells = {<<0, 0, 0>>, <<BaseWidth, 0, 0>>}

\* the upgrade-adjusted heat capacity of a component, in hundredths
EffectiveCapacity(c) ==
    Stats(c.stats).heat_capacity
        * get_upgrade_stat_bonus(upgrades, Stats(c.stats).component_type_id, HEAT_CAPACITY)

\* what the explosion check selects: the live components at or over their capacity once
\* the hull's overflow has been added, and every live component in a meltdown
Candidate(c) ==
    LET over == sim.max_reactor_heat > 0 /\ sim.reactor_heat > sim.max_reactor_heat
        share == IF over THEN FloorDiv((sim.reactor_heat - sim.max_reactor_heat) * 5, 100)
                 ELSE 0
        meltdown == sim.max_reactor_heat > 0 /\ sim.reactor_heat >= 2 * sim.max_reactor_heat
    IN /\ ~c.depleted
       /\ \/ meltdown
          \/ Stats(c.stats).heat_capacity > 0 /\ c.heat + share >= EffectiveCapacity(c)

\* C30: immediately after the explosion check of any tick, every component still on
\* the grid that has positive heat capacity has heat strictly below its upgrade-adjusted
\* heat capacity; every destroyed component is absent from both the grid and the
\* component list, and all destruction candidates are selected before any component is
\* removed.
C30_AfterExplosions ==
    [][(pc = "explode" /\ pc' = "autovent") =>
          /\ \A p \in DOMAIN cells' :
                Stats(heap'[cells'[p]].stats).heat_capacity > 0
                   => heap'[cells'[p]].heat < EffectiveCapacity(heap'[cells'[p]])
          /\ \A k \in 1..Len(components) :
                LET id == components[k]
                IN /\ Candidate(heap[id]) <=> id \notin SeqToSet(components')
                   /\ id \notin SeqToSet(components')
                         => \A p \in DOMAIN cells' : cells'[p] # id]_vars

\* C31: in DrainDurability each non-depleted fuel cell loses exactly 1 durability per
\* tick; when its durability reaches 0 or below it is either auto-replaced (only if
\* replace_mode is on and the replaces-self upgrade for its type is owned), which resets
\* durability to the upgrade-adjusted maximum and heat to 0 and leaves it non-depleted,
\* or it is marked depleted; in both cases the pulse-dirty flag is set.
C31_DrainFuel ==
    [][(pc = "drain" /\ pc' = "generate") =>
          \A p \in DOMAIN cells :
             LET c == heap[cells[p]]
                 d == heap'[cells[p]]
                 st == Stats(c.stats)
                 owned == st.component_type_id = 2 /\ levels[PerpetualIndex] > 0
                 adjusted == st.max_durability
                                * (IF st.component_type_id = 2 /\ levels[FuelDurabilityIndex] > 0
                                   THEN 2 ELSE 1)
             IN (st.type_of_component = "Fuel" \/ st.pulses_produced > 0) /\ ~c.depleted =>
                   IF c.durability - 1 > 0
                   THEN d = [c EXCEPT !.durability = c.durability - 1]
                   ELSE /\ sim'.pulses_dirty
                        /\ IF sim.replace_mode /\ owned
                           THEN d = [c EXCEPT !.durability = adjusted, !.heat = 0]
                           ELSE d = [c EXCEPT !.durability = c.durability - 1,
                                              !.depleted = TRUE]]_vars

\* C31's case: DrainDurability has just replaced the heated cell on its last tick, with
\* the doubled durability, beside a cell that lost one tick
C31_Witness ==
    /\ pc = "generate" /\ levels[PerpetualIndex] > 0 /\ levels[FuelDurabilityIndex] > 0
    /\ <<0, 0, 0>> \in DOMAIN cells /\ <<1, 0, 0>> \in DOMAIN cells
    /\ heap[cells[<<0, 0, 0>>]].durability = 200 /\ heap[cells[<<0, 0, 0>>]].heat = 0
    /\ ~heap[cells[<<0, 0, 0>>]].depleted
    /\ heap[cells[<<1, 0, 0>>]].durability = 98
    /\ sim.pulses_dirty

\* the sum of last_power over the components that the heap h holds at the cells S
RECURSIVE SumLastPower(_, _)
SumLastPower(h, S) ==
    IF S = {} THEN 0
    ELSE LET p == CHOOSE q \in S : TRUE
         IN h[cells[p]].last_power + SumLastPower(h, S \ {p})

\* C32: once a component is marked depleted it stays depleted and stays in its grid
\* cell through any number of ticks until it is removed by remove_component,
\* do_prestige or reset_game; while depleted it emits no pulses, generates no power or
\* heat, and loses no further durability.
C32_DepletedInert ==
    [][(pc # "idle" \/ pc' # "idle") =>
          /\ \A p \in DOMAIN cells :
                heap[cells[p]].depleted =>
                   /\ p \in DOMAIN cells' /\ cells'[p] = cells[p]
                   /\ heap'[cells[p]].depleted
                   /\ heap'[cells[p]].durability = heap[cells[p]].durability
          /\ (pc = "distribute" /\ pc' = "drain") =>
                \A p \in DOMAIN cells :
                   heap'[cells[p]].pulse_count
                      = (OwnPulses(p) + PulsesReceived(p, (DOMAIN cells) \ {p}))'
          /\ (pc = "generate" /\ pc' = "heat_exchange") =>
                /\ tk'.power_gen = SumLastPower(heap', LiveFuel)
                /\ LiveFuel = {} =>
                      /\ tk'.heat_gen = 0
                      /\ sim'.reactor_heat = sim.reactor_heat
                      /\ \A p \in DOMAIN cells :
                            heap'[cells[p]].heat = heap[cells[p]].heat]_vars

\* the cells next to p that hold a component with positive heat capacity
Absorbers(p) ==
    {q \in DOMAIN cells :
        /\ q[3] = p[3]
        /\ Abs(q[1] - p[1]) + Abs(q[2] - p[2]) = 1
        /\ Stats(heap[cells[q]].stats).heat_capacity > 0}

\* the sum over the fuel cells S of the share of their heat (in the heap h) that the
\* component at q receives
RECURSIVE SumShares(_, _, _)
SumShares(h, S, q) ==
    IF S = {} THEN 0
    ELSE LET p == CHOOSE r \in S : TRUE
         IN (IF q \in Absorbers(p)
             THEN FloorDiv(h[cells[p]].last_heat, Cardinality(Absorbers(p))) ELSE 0)
            + SumShares(h, S \ {p}, q)

\* the sum over the fuel cells S without an absorbing neighbour of their heat
RECURSIVE SumToHull(_, _)
SumToHull(h, S) ==
    IF S = {} THEN 0
    ELSE LET p == CHOOSE r \in S : TRUE
         IN (IF Absorbers(p) = {} THEN h[cells[p]].last_heat ELSE 0)
            + SumToHull(h, S \ {p})

\* C33: in GeneratePowerAndHeat the heat of a fuel cell with k >= 1 cardinal
\* neighbours of positive heat capacity goes to them, heat / k each, and none of it
\* to the hull; the heat of a cell without such neighbours is added to reactor_heat;
\* the heat the stage returns is the total added to the hull.
C33_HeatAccounted ==
    [][(pc = "generate" /\ pc' = "heat_exchange") =>
          /\ \A q \in DOMAIN cells :
                heap'[cells[q]].heat - heap[cells[q]].heat = SumShares(heap', LiveFuel, q)
          /\ sim'.reactor_heat - sim.reactor_heat = SumToHull(heap', LiveFuel)
          /\ tk'.heat_gen = sim'.reactor_heat - sim.reactor_heat]_vars

\* a generation has just split the heat of a cell between three neighbours, the hull
\* receiving none
C33_Witness ==
    /\ pc = "heat_exchange"
    /\ <<1, 1, 0>> \in DOMAIN cells
    /\ Cardinality(Absorbers(<<1, 1, 0>>)) = 3
    /\ heap[cells[<<1, 1, 0>>]].last_heat > 0
    /\ tk.heat_gen = 0
    /\ \A q \in Absorbers(<<1, 1, 0>>) : heap[cells[q]].heat > 0

\* the cells p and q are cardinal neighbours
Adjacent(p, q) == p[3] = q[3] /\ Abs(p[1] - q[1]) + Abs(p[2] - q[2]) = 1

\* the cells of the exchangers that act in HeatExchange
Exchangers ==
    {p \in DOMAIN cells :
        /\ ~heap[cells[p]].depleted
        /\ Stats(heap[cells[p]].stats).type_of_component = "Exchanger"
        /\ Stats(heap[cells[p]].stats).self_vent_rate > 0
        /\ EffectiveCapacity(heap[cells[p]]) > 0}

\* the neighbours the exchanger at e exchanges with
Partners(e) ==
    {q \in DOMAIN cells :
        /\ Adjacent(e, q)
        /\ ~heap[cells[q]].depleted
        /\ ~Stats(heap[cells[q]].stats).cant_lose_heat
        /\ EffectiveCapacity(heap[cells[q]]) > 0}

\* the transfer rate of the exchanger at e
TransferRate(e) ==
    FloorDiv(Stats(heap[cells[e]].stats).self_vent_rate
             * get_upgrade_stat_bonus(upgrades, Stats(heap[cells[e]].stats).component_type_id,
                                      ADJACENT_TRANSFER_RATE)
             * sim.heat_exchange_mult, FP)

\* the place of the neighbour q of e in the order the grid lists neighbours in
NeighborOrder(e, q) ==
    IF q[1] = e[1] - 1 THEN 1 ELSE IF q[1] = e[1] + 1 THEN 2
    ELSE IF q[2] = e[2] - 1 THEN 3 ELSE 4

RECURSIVE SumHeat(_, _)
SumHeat(h, S) ==
    IF S = {} THEN 0
    ELSE LET p == CHOOSE r \in S : TRUE IN h[cells[p]].heat + SumHeat(h, S \ {p})

\* what HeatExchange does in one step of the tick; capped: whether the pooled fill
\* ratio is limited to 1
ExchangeLaw(capped) ==
    /\ sim'.reactor_heat = sim.reactor_heat
    /\ SumHeat(heap', DOMAIN cells) = SumHeat(heap, DOMAIN cells)
    /\ \A q \in DOMAIN cells :
          heap'[cells[q]].heat # heap[cells[q]].heat =>
             \/ q \in Exchangers
             \/ \E e \in Exchangers : q \in Partners(e)
    /\ \A e \in Exchangers :
          Exchangers = {e} =>
             /\ heap'[cells[e]].heat - heap[cells[e]].heat
                   = SumHeat(heap, Partners(e)) - SumHeat(heap', Partners(e))
             /\ \A q \in Partners(e) :
                   LET earlier == {r \in Partners(e) : NeighborOrder(e, r) < NeighborOrder(e, q)}
                       own == heap[cells[e]].heat
                                 - (SumHeat(heap', earlier) - SumHeat(heap, earlier))
                       pool == own + heap[cells[q]].heat
                       ncap == EffectiveCapacity(heap[cells[q]])
                       total_cap == EffectiveCapacity(heap[cells[e]]) + ncap
                       level == FloorDiv((IF capped THEN Max(0, Min(total_cap, pool)) ELSE pool)
                                            * ncap, total_cap)
                       transfer == heap'[cells[q]].heat - heap[cells[q]].heat
                   IN /\ Abs(transfer) <= TransferRate(e)
                      /\ \/ 0 <= transfer /\ transfer <= level - heap[cells[q]].heat
                         \/ level - heap[cells[q]].heat <= transfer /\ transfer <= 0

Isolated == {p \in DOMAIN cells : Stats(heap[cells[p]].stats).cant_lose_heat}

LiveOfType(type) ==
    {p \in DOMAIN cells :
        /\ ~heap[cells[p]].depleted
        /\ Stats(heap[cells[p]].stats).reactor_vent_rate > 0
        /\ Stats(heap[cells[p]].stats).type_of_component = type}

\* C36: ExchangeWithHull neither creates nor destroys heat: reactor_heat plus the sum
\* of the component heats is the same after the stage as before; an inlet never takes
\* more from a neighbour than it holds and skips isolated neighbours; the outlets
\* together never push more than the hull holds.
C36_HullExchange ==
    [][(pc = "hull" /\ pc' = "vent") =>
          /\ sim'.reactor_heat + SumHeat(heap', DOMAIN cells)
                = sim.reactor_heat + SumHeat(heap, DOMAIN cells)
          /\ sim'.reactor_heat >= 0
          /\ \A p \in DOMAIN cells :
                /\ heap'[cells[p]].heat >= 0
                /\ p \in Isolated => heap'[cells[p]].heat >= heap[cells[p]].heat
                /\ heap'[cells[p]].heat < heap[cells[p]].heat =>
                      \E i \in LiveOfType("Inlet") : Adjacent(i, p)
          /\ LiveOfType("Inlet") = {} =>
                /\ sim'.reactor_heat <= sim.reactor_heat
                /\ SumHeat(heap', DOMAIN cells) - SumHeat(heap, DOMAIN cells)
                      <= sim.reactor_heat]_vars

\* the hull exchange has just emptied a hull of 10 through two outlets into the coolant
\* beside them
C36_Witness ==
    /\ pc = "vent"
    /\ Cardinality(LiveOfType("Outlet")) = 2
    /\ sim.reactor_heat < FP
    /\ <<1, 0, 0>> \in DOMAIN cells /\ heap[cells[<<1, 0, 0>>]].heat > 0
    /\ <<3, 0, 0>> \in DOMAIN cells /\ heap[cells[<<3, 0, 0>>]].heat > 20 * FP
    /\ sim.reactor_heat + SumHeat(heap, DOMAIN cells) = 30 * FP

\* C37: after _restore_from_dict has returned True the component list and the grid
\* correspond, whatever the snapshot's component list, two entries at one position
\* included: every listed component occupies the cell of its recorded position.
C37_RestoredListOnGrid ==
    (ret.op = "import" /\ ret.val.ok) =>
        \A k \in 1..Len(components) :
           LET c == heap[components[k]]
           IN /\ <<c.grid_x, c.grid_y, c.grid_z>> \in DOMAIN cells
              /\ cells[<<c.grid_x, c.grid_y, c.grid_z>>] = components[k]

\* C38: reactor_heat >= 0 and stored_power >= 0 in every reachable state (after every
\* stage of a tick, vent_heat, sell_or_scrounge, do_prestige and reset_game), and money
\* never becomes negative through the purchase of an upgrade, the placement of a
\* component or its replacement.
C38_NoDebt ==
    /\ sim.reactor_heat >= 0
    /\ sim.stored_power >= 0
    /\ store.money >= 0

\* a click has just replaced, after a tick, a component that the outlet had heated:
\* the refund was less than the cost and the money paid the difference
C38_Witness ==
    /\ ret.op = "click" /\ ret.val = "replaced"
    /\ sim.total_ticks > 0
    /\ store.money % FP # 0
    /\ store.money < 3 * FP

\* the exotic particles that are not in hand
EpSpent == store.total_exotic_particles - store.exotic_particles

\* C39: through ticks, purchases, do_prestige, refund_prestige_upgrades and reset_game,
\* 0 <= exotic_particles <= total_exotic_particles, and the difference is what has
\* been spent on prestige upgrades since the last refund or reset: a prestige upgrade
\* bought adds its cost to it, a prestige leaves it, a refund and a reset make it 0,
\* and nothing else changes either number.
C39_EpAccount ==
    [][/\ 0 <= store.exotic_particles /\ EpSpent >= 0
       /\ 0 <= store.exotic_particles' /\ EpSpent' >= 0
       /\ IF ret'.op = "purchase"
             /\ can_purchase(upgrades, ret'.args[1], store.money, store.exotic_particles)
             /\ upgrades[ret'.args[1]].is_prestige
          THEN /\ EpSpent' = EpSpent + get_cost(upgrades, ret'.args[1])
               /\ store.total_exotic_particles' = store.total_exotic_particles
          ELSE IF ret'.op = "do_prestige"
          THEN /\ EpSpent' = EpSpent
               /\ store.total_exotic_particles'
                     = store.total_exotic_particles + ret'.val * FP
          ELSE IF ret'.op \in {"refund", "reset_game"}
          THEN /\ EpSpent' = 0
               /\ ret'.op = "refund" =>
                     store.total_exotic_particles' = store.total_exotic_particles
               /\ ret'.op = "reset_game" => store.total_exotic_particles' = 0
          ELSE /\ store.exotic_particles' = store.exotic_particles
               /\ store.total_exotic_particles' = store.total_exotic_particles]_vars

\* a second prestige has just returned while 3 of the 4 exotic particles of the first
\* stay spent on two levels of a prestige upgrade
C39_Witness ==
    /\ ret.op = "do_prestige"
    /\ upgrades[6].level = 2
    /\ EpSpent = 3 * FP
    /\ store.exotic_particles = 1 * FP

=============================================================================
